---- MODULE Spec2Model ----
(***************************************************************************)
(* Model of the task scheduler of mediacraft-api                           *)
(* (src/core/task_queue.py, class TaskQueueManager) together with the part *)
(* of the JSON task store it uses (src/core/storage.py) and the request    *)
(* handlers that hand tasks to it (src/api/tasks.py).                      *)
(*                                                                         *)
(* Threads of the program and their steps:                                 *)
(*   - request threads calling submit_task, cancel_task and the            *)
(*     update_task handler (action start_processing),                      *)
(*   - the dispatch thread (_process_queue),                               *)
(*   - the health thread (_health_check: _check_stuck_tasks followed by    *)
(*     _update_heartbeat),                                                 *)
(*   - the pool threads of the ThreadPoolExecutor running _execute_task.   *)
(* Every get_task / save_task of the store is atomic (storage._lock), a    *)
(* read-modify-write of a record (_update_task_status and friends) is two  *)
(* steps: the read into a thread-local copy and the later write of that    *)
(* copy.  Sections under _task_lock that touch no record are one step.     *)
(***************************************************************************)
EXTENDS Integers, Sequences, FiniteSets

\* ------------------------------------------------------------------ bounds
NumTasks == 3          \* task ids
LongTasks == 2         \* ids submitted in runs where the clock passes the timeouts
MaxConcurrent == 1     \* max_concurrent of the scheduler under test
MaxProgress == 1       \* tasks whose engine reports progress (once)
MaxCancel == 1         \* cancel_task calls over the whole run
MaxAge == 2            \* the oldest age told apart, in ticks
TickMinutes == 16      \* minutes per tick
MaxQueueSize == 1      \* max_queue_size of the configuration under test
MaxRegions == 2        \* regions in a watermark_removal configuration
MaxFiles == 3          \* files in a video_merge configuration
MaxReports == 2        \* progress reports of an engine in runs that follow them
Over == 1              \* how far a reported percentage lies outside 0..100
MaxSide == 1           \* width and height of a frame validate_regions is given
NumThreads == 2        \* threads that call save_task in runs that follow the store
MaxSaves == 2          \* save_task calls of one thread in those runs
MaxSessions == 2       \* sessions (sid) whose tasks write a result file
OutputThreads == 2     \* pool threads followed in runs that follow the result files

\* ------------------------------------------------------- program constants
QueuedTimeoutMinutes == 15
ProcessingTimeoutMinutes == 30

Tasks == 1..NumTasks

VARIABLES
  rec,       \* the task store: tasks.json, task id -> record
  age,       \* now - created_at of each record, in ticks, at the last health pass
  active,    \* active_tasks: ids that hold a worker slot
  fut,       \* the Future of each id handed to the executor
  workQ,     \* the executor's work queue: pending futures in order
  queue,     \* task_queue: the FIFO wait queue
  hlock,     \* TRUE while the health thread holds _task_lock in _update_heartbeat
  spc,       \* submit_task / update_task: position of the call made for each id
  wpc,       \* _execute_task: position of the pool thread running each id
  wrec,      \* _execute_task: the record copy read for the pending write
  nprog,     \* progress reports made so far by each task's engine
  cpc,       \* cancel_task: position of the call on each id
  crec,      \* cancel_task: the record copy read for the pending write
  cres,      \* cancel_task: what the last call on each id returned
  ncancel,   \* cancel_task calls made so far
  dpc,       \* _process_queue: position in the loop body
  hpc,       \* _health_check: position in the loop body
  hstuck,    \* _check_stuck_tasks: ids of the snapshot still to be failed
  ht,        \* health thread: the id being handled
  hrec,      \* health thread: the record copy read for the pending write
  hbTodo,    \* _update_heartbeat: ids of list(active_tasks) still to visit
  cancelOk,  \* history: ids whose cancel_task on a queued record returned True
  lastSub,   \* history: the id whose submit_task ran its locked section last
  ran,       \* history: ids whose engine has been invoked
  urec,      \* update_task: the record copy read for the pending write
  acc,       \* can_accept_task: what the last call returned
  cfg,       \* task_type and task_config of each record, where a run fixes them
  eng,       \* the last call an engine made or answered: its arguments and result
  fault,     \* the last Task Store failure: the operation it hit and how that ended
  sto,       \* FileStorageManager: _lock, tasks.json and the save_task calls under way
  conf,      \* configure_task: the id each call was made for and the id it submitted
  disk       \* the result directories: for each output path the task whose output it holds

vars == <<rec, age, active, fut, workQ, queue, hlock, spc, wpc, wrec, nprog,
          cpc, crec, cres, ncancel, dpc, hpc, hstuck, ht, hrec, hbTodo,
          cancelOk, lastSub, ran, urec, acc, cfg, eng, fault, sto, conf, disk>>

\* ------------------------------------------------------------ task records
\* Of a record the model keeps status, error_message (err), whether
\* output_file_path is set (out), progress_percentage (pct) and whether
\* created_at carries a UTC offset (tz).
NoRecord ==
  [status |-> "none", err |-> "null", out |-> "null", pct |-> 0, tz |-> "none"]

\* no engine has made a call yet
NoCall == [op |-> "none"]

\* no call to the Task Store has failed yet
NoFault == [op |-> "none", task |-> 0, left |-> <<>>, raised |-> FALSE]

\* the record submit_task builds (lines 62-74): created_at is
\* datetime.utcnow().isoformat(), without offset
NewRecord ==
  [status |-> "queued", err |-> "null", out |-> "null", pct |-> 0, tz |-> "naive"]

\* the record create_task builds (api/tasks.py lines 48-66), uploaded since:
\* created_at is datetime.now(timezone.utc).isoformat(), with offset
ApiRecord ==
  [status |-> "uploaded", err |-> "null", out |-> "null", pct |-> 0, tz |-> "aware"]

\* task_type and task_config of a record where the run leaves them open
AnyConfig == [type |-> "any", regions |-> <<>>, files |-> 0]

Terminal == {"completed", "failed", "cancelled"}

\* storage.get_task
GetTask(t) == rec[t]

\* storage.save_task applied to the store
SaveTask(t, r) == [rec EXCEPT ![t] = r]

\* _update_task_status: the write half, task["status"] = status; task.update(kwargs)
WithStatus(r, status) == [r EXCEPT !.status = status]

\* _update_task_status with the kwargs of lines 244-250: output_file_path
\* is what the engine returned, a path, and progress_percentage is 100
WithCompletion(r) ==
  [r EXCEPT !.status = "completed", !.out = "path", !.pct = 100]

\* a failure is written with a status of its own
WithFailureOwnStatus(r, msg) == [r EXCEPT !.status = "timeout", !.err = msg]

\* _update_task_status with the kwargs of lines 165-170 and 257-262
WithFailure(r, msg) == [r EXCEPT !.status = "failed", !.err = msg]

Range(s) == {s[i] : i \in 1..Len(s)}

Remove(s, x) == SelectSeq(s, LAMBDA y : y # x)

Min(S) == CHOOSE x \in S : \A y \in S : x <= y

\* ------------------------------------------------- the store, step by step
\* The threads that call save_task, and what call k of thread th saves.
Threads == 1..NumThreads

NoContent == <<0, 0>>

Content(th, k) == <<th, k>>

\* tasks.json as _ensure_json_file leaves it: {"tasks": {}}
EmptyFile == [t \in Tasks |-> NoContent]

\* sto: lock is the owner of FileStorageManager._lock (0: free), file is
\* tasks.json, tmp is tasks.json.tmp; of each thread pc is its position in
\* save_task, id and data are the arguments of its call, copy is its local
\* `tasks`, n counts its calls that returned; last is what the last call
\* that returned saved under each id, met says whether two calls overlapped.
NoSaves ==
  [lock |-> 0, file |-> EmptyFile, tmp |-> EmptyFile,
   pc |-> [th \in Threads |-> "idle"], id |-> [th \in Threads |-> 0],
   data |-> [th \in Threads |-> NoContent],
   copy |-> [th \in Threads |-> EmptyFile],
   n |-> [th \in Threads |-> 0], last |-> EmptyFile, met |-> FALSE]

\* no configure_task call has been made: conf[t] is the id the call made for
\* t submitted, 0 before there is one
NoConfigure == [t \in Tasks |-> 0]

\* names under which clients upload an input file
InputNames == {"a.mp4", "b.mp4"}

\* task_type, sid and what the output name is built from: the number of
\* inputs of a merge, the basename of input_file_path of a watermark removal
\* (api/tasks.py line 332: the client's file name)
OutputConfigs ==
  {[type |-> "video_merge", regions |-> <<>>, files |-> n, sid |-> s,
    name |-> ""] : n \in 2..MaxFiles, s \in 1..MaxSessions} \cup
  {[type |-> "watermark_removal", regions |-> <<>>, files |-> 0, sid |-> s,
    name |-> f] : f \in InputNames, s \in 1..MaxSessions}

\* merger.py lines 83-86 and watermark.py lines 60-67: the output path is
\* the session's result directory joined with merged_video_{n}_files.mp4 or
\* with {name}_watermark_removed{ext}; files is 0 and name empty where the
\* path does not depend on them
OutputPath(c) ==
  [sid |-> c.sid, type |-> c.type, files |-> c.files, name |-> c.name]

OutputPaths == {OutputPath(c) : c \in OutputConfigs}

\* no engine has written an output file yet: disk[p] is the task whose
\* output the file at p holds, 0 where there is no file
NoFiles == [p \in OutputPaths |-> 0]

Init ==
  /\ rec = [t \in Tasks |-> NoRecord]
  /\ age = [t \in Tasks |-> 0]
  /\ active = {}
  /\ fut = [t \in Tasks |-> "none"]
  /\ workQ = <<>>
  /\ queue = <<>>
  /\ hlock = FALSE
  /\ spc = [t \in Tasks |-> "new"]
  /\ wpc = [t \in Tasks |-> "idle"]
  /\ wrec = [t \in Tasks |-> NoRecord]
  /\ nprog = [t \in Tasks |-> 0]
  /\ cpc = [t \in Tasks |-> "idle"]
  /\ crec = [t \in Tasks |-> NoRecord]
  /\ cres = [t \in Tasks |-> "none"]
  /\ ncancel = 0
  /\ dpc = "poll"
  /\ hpc = "idle"
  /\ hstuck = {}
  /\ ht = 0
  /\ hrec = NoRecord
  /\ hbTodo = {}
  /\ cancelOk = {}
  /\ lastSub = 0
  /\ ran = {}
  /\ urec = [t \in Tasks |-> NoRecord]
  /\ acc = "none"
  /\ cfg = [t \in Tasks |-> AnyConfig]
  /\ eng = NoCall
  /\ fault = NoFault
  /\ sto = NoSaves
  /\ conf = NoConfigure
  /\ disk = NoFiles

\* ------------------------------------------------------------- submit_task
\* the comparison admits one id too many
SlotFreeOffByOne == Cardinality(active) <= MaxConcurrent

\* line 81: len(self.active_tasks) < self.max_concurrent
SlotFree == Cardinality(active) < MaxConcurrent

\* _start_task_immediately: executor.submit and active_tasks[task_id] = future
StartTaskImmediately(t) ==
  /\ active' = active \cup {t}
  /\ fut' = [fut EXCEPT ![t] = "pending"]
  /\ workQ' = Append(workQ, t)

\* a put that drops the id when the queue holds max_queue_size ids
PutBounded(q, t) == IF Len(q) >= MaxQueueSize THEN q ELSE Append(q, t)

\* task_queue.put(task_id) on a queue.Queue() built without maxsize (line 24)
Put(q, t) == Append(q, t)

\* submit_task lines 61-77: a fresh id, the record saved as queued.  Ids are
\* handed out in increasing order (uuid4 values are fresh, their names free).
SubmitSave(t) ==
  /\ spc[t] = "new"
  /\ \A u \in Tasks : u < t => spc[u] # "new"
  /\ rec' = SaveTask(t, NewRecord)
  /\ spc' = [spc EXCEPT ![t] = "saved"]
  /\ UNCHANGED <<age, active, fut, workQ, queue, hlock, wpc, wrec, nprog, cpc,
                 crec, cres, ncancel, dpc, hpc, hstuck, ht, hrec, hbTodo,
                 cancelOk, lastSub, urec, acc, cfg, eng, fault, sto, conf, disk, ran>>

\* submit_task lines 79-86: under _task_lock, start at once or enqueue
SubmitAdmit(t) ==
  /\ spc[t] = "saved"
  /\ ~hlock
  /\ IF SlotFree
       THEN StartTaskImmediately(t) /\ UNCHANGED queue
       ELSE queue' = Put(queue, t) /\ UNCHANGED <<active, fut, workQ>>
  /\ spc' = [spc EXCEPT ![t] = "done"]
  /\ lastSub' = t
  /\ UNCHANGED <<rec, age, hlock, wpc, wrec, nprog, cpc, crec, cres, ncancel,
                 dpc, hpc, hstuck, ht, hrec, hbTodo, cancelOk, ran, urec, acc, cfg, eng, fault, sto, conf, disk>>

\* ------------------------------------------- update_task, start_processing
\* create_task and the upload: the record exists before update_task is called
CreateTask(t) ==
  /\ spc[t] = "new"
  /\ \A u \in Tasks : u < t => spc[u] # "new"
  /\ rec' = SaveTask(t, ApiRecord)
  /\ spc' = [spc EXCEPT ![t] = "created"]
  /\ UNCHANGED <<age, active, fut, workQ, queue, hlock, wpc, wrec, nprog, cpc,
                 crec, cres, ncancel, dpc, hpc, hstuck, ht, hrec, hbTodo,
                 cancelOk, lastSub, urec, acc, cfg, eng, fault, sto, conf, disk, ran>>

\* update_task lines 558 and 617-644: the record is read, the copy set to
\* queued, and under _task_lock the existing id is started at once or
\* enqueued.  Until the id is handed over no other thread writes to the
\* record, so the read is not a step of its own.
UpdateTaskAdmit(t) ==
  /\ spc[t] = "created"
  /\ ~hlock
  /\ urec' = [urec EXCEPT ![t] = WithStatus(GetTask(t), "queued")]
  /\ IF SlotFree
       THEN StartTaskImmediately(t) /\ UNCHANGED queue
       ELSE queue' = Put(queue, t) /\ UNCHANGED <<active, fut, workQ>>
  /\ spc' = [spc EXCEPT ![t] = "handed"]
  /\ UNCHANGED <<rec, age, hlock, wpc, wrec, nprog, cpc, crec, cres, ncancel,
                 dpc, hpc, hstuck, ht, hrec, hbTodo, cancelOk, lastSub, ran,
                 acc, cfg, eng, fault, sto, conf, disk>>

\* update_task line 649: the copy read at line 558, status queued, is saved
UpdateTaskSave(t) ==
  /\ spc[t] \in {"handed", "rehanded"}
  /\ rec' = SaveTask(t, urec[t])
  /\ urec' = [urec EXCEPT ![t] = NoRecord]
  /\ spc' = [spc EXCEPT ![t] = IF spc[t] = "handed" THEN "done" ELSE "redone"]
  /\ UNCHANGED <<age, active, fut, workQ, queue, hlock, wpc, wrec, nprog, cpc,
                 crec, cres, ncancel, dpc, hpc, hstuck, ht, hrec, hbTodo,
                 cancelOk, lastSub, ran, acc, cfg, eng, fault, sto, conf, disk>>

\* the statuses update_task writes for a request without start_processing
\* (lines 576 and 617)
SelectStatuses == {"frame_selected", "regions_selected"}

\* update_task with selected_frame or regions and no action, lines 558,
\* 574-617 and 649, on a task not handed over yet: no other thread writes to
\* its record, so the read and the save are one step
UpdateTaskSelect(t, s) ==
  /\ spc[t] = "created"
  /\ rec[t].status # s
  /\ rec' = SaveTask(t, WithStatus(GetTask(t), s))
  /\ UNCHANGED <<age, active, fut, workQ, queue, hlock, spc, wpc, wrec, nprog,
                 cpc, crec, cres, ncancel, dpc, hpc, hstuck, ht, hrec, hbTodo,
                 cancelOk, lastSub, ran, urec, acc, cfg, eng, fault, sto, conf, disk>>

\* update_task with start_processing called once more, after the earlier
\* call has returned and the worker it started has ended: lines 558-644
\* have no condition on the status read, the id is handed over again.
\* One such call is made per task.
UpdateTaskAgain(t) ==
  /\ spc[t] = "done" /\ rec[t].tz = "aware"
  /\ wpc[t] = "done"
  /\ ~hlock
  /\ urec' = [urec EXCEPT ![t] = WithStatus(GetTask(t), "queued")]
  /\ IF SlotFree
       THEN StartTaskImmediately(t) /\ UNCHANGED queue
       ELSE queue' = Put(queue, t) /\ UNCHANGED <<active, fut, workQ>>
  /\ spc' = [spc EXCEPT ![t] = "rehanded"]
  /\ UNCHANGED <<rec, age, hlock, wpc, wrec, nprog, cpc, crec, cres, ncancel,
                 dpc, hpc, hstuck, ht, hrec, hbTodo, cancelOk, lastSub, ran,
                 acc, cfg, eng, fault, sto, conf, disk>>

\* ----------------------------------------------------------- _execute_task
Running == {u \in Tasks : fut[u] = "running"}

\* A pool thread (the pool has max_concurrent threads) takes the oldest
\* pending work item; _execute_task lines 213-216 find the record and
\* _update_task_status lines 317-320 read it and set the copy to processing.
WorkerStart(t) ==
  /\ workQ # <<>> /\ Head(workQ) = t
  /\ Cardinality(Running) < MaxConcurrent
  /\ fut' = [fut EXCEPT ![t] = "running"]
  /\ workQ' = Tail(workQ)
  /\ wrec' = [wrec EXCEPT ![t] = WithStatus(GetTask(t), "processing")]
  /\ wpc' = [wpc EXCEPT ![t] = "upd_proc"]
  /\ UNCHANGED <<rec, age, active, queue, hlock, spc, nprog, cpc, crec, cres,
                 ncancel, dpc, hpc, hstuck, ht, hrec, hbTodo, cancelOk,
                 lastSub, urec, acc, cfg, eng, fault, sto, conf, disk, ran>>

\* save_task of the copy a worker holds (lines 321, 333, 308)
WorkerSave(t, from, to) ==
  /\ wpc[t] = from
  /\ rec' = SaveTask(t, wrec[t])
  /\ wrec' = [wrec EXCEPT ![t] = NoRecord]
  /\ wpc' = [wpc EXCEPT ![t] = to]
  /\ UNCHANGED <<age, active, fut, workQ, queue, hlock, spc, cpc, crec, cres,
                 ncancel, dpc, hpc, hstuck, ht, hrec, hbTodo, cancelOk,
                 lastSub, urec, acc, cfg, eng, fault, sto, conf, disk>>

\* line 321 for the call of line 219: the record is saved as processing;
\* lines 227-241: the executor lookup and _validate_task_config pass and the
\* engine is invoked
WorkerWriteProcessing(t) ==
  /\ WorkerSave(t, "upd_proc", "engine")
  /\ ran' = ran \cup {t}
  /\ UNCHANGED nprog

\* line 321 for the call of line 219, then lines 233-237 raise ValueError
WorkerWriteProcessingInvalid(t) ==
  /\ WorkerSave(t, "upd_proc", "invalid")
  /\ UNCHANGED <<ran, nprog>>

\* An exception, by its args: the ValueError of lines 234 and 277-297, the
\* OverflowError of int(), and what an engine may raise, with a message or
\* with none.
ValidationError == <<"validation">>

OverflowError == <<"overflow">>

NoException == <<"no exception">>

\* ---------------------------------------------------- _validate_task_config
RegionKeys == <<"x", "y", "width", "height">>

\* What a region may hold under a key: an integer, a finite float ("float"),
\* a string of digits ("digits"), an infinite float ("inf"), a value int()
\* rejects with ValueError or TypeError ("text": other strings, None, a
\* list, NaN), or nothing ("missing").
Kinds == {"int", "float", "digits", "inf", "text", "missing"}

\* int(v) of line 290: what it raises, if anything
ToInt(v) ==
  CASE v \in {"int", "float", "digits"} -> NoException
    [] v = "inf" -> OverflowError
    [] OTHER -> <<"ValueError or TypeError">>

\* the regions the model draws from: an element that is no dict, and dicts
\* with integers under every key but at most one
Regions ==
  {[mapping |-> FALSE, at |-> [k \in {} |-> "int"]]} \cup
  {[mapping |-> TRUE,
    at |-> [k \in Range(RegionKeys) |-> IF k = RegionKeys[i] THEN v ELSE "int"]] :
     i \in 1..Len(RegionKeys), v \in Kinds}

SeqsUpTo(S, n) == UNION {[1..m -> S] : m \in 0..n}

\* task_type and task_config of a record
Configs ==
  {[type |-> "watermark_removal", regions |-> rs, files |-> 0] :
     rs \in SeqsUpTo(Regions, MaxRegions)} \cup
  {[type |-> "video_merge", regions |-> <<>>, files |-> n] : n \in 0..MaxFiles}

\* lines 285-292 for one key of a region, k being its place in required_keys
ValidateKey(region, k) ==
  IF region.at[RegionKeys[k]] = "missing" THEN ValidationError
  ELSE IF ToInt(region.at[RegionKeys[k]]) = NoException THEN NoException
  ELSE IF ToInt(region.at[RegionKeys[k]]) = OverflowError THEN OverflowError
  ELSE ValidationError

\* lines 280-292 for one region: the first key that raises decides
ValidateRegion(region) ==
  IF ~region.mapping THEN ValidationError
  ELSE LET bad == {k \in 1..Len(RegionKeys) : ValidateKey(region, k) # NoException}
       IN  IF bad = {} THEN NoException ELSE ValidateKey(region, Min(bad))

\* only the first region is looked at
ValidateTaskConfigFirst(c) ==
  IF c.type = "watermark_removal"
    THEN IF c.regions = <<>> THEN ValidationError
         ELSE ValidateRegion(c.regions[1])
    ELSE IF c.files < 2 THEN ValidationError ELSE NoException

\* _validate_task_config, lines 269-297: the exception it raises, if any;
\* the first region that raises decides
ValidateTaskConfig(c) ==
  IF c.type = "watermark_removal"
    THEN IF c.regions = <<>> THEN ValidationError
         ELSE LET bad == {i \in 1..Len(c.regions) :
                            ValidateRegion(c.regions[i]) # NoException}
              IN  IF bad = {} THEN NoException
                  ELSE ValidateRegion(c.regions[Min(bad)])
    ELSE IF c.files < 2 THEN ValidationError ELSE NoException

EngineErrors == {<<"exec">>, <<>>}

\* str(e) of line 261: the message, the empty string for an exception
\* raised without one
Str(e) == IF e = <<>> THEN "" ELSE e[1]

\* The except branch, lines 254-262 -> 317-321: the record is saved as failed
\* with error_message = str(e).  The write replaces status and
\* error_message and no write changes created_at, so the read of line 317
\* that precedes it is not a step of its own.
WorkerFail(t, from, e) ==
  /\ wpc[t] = from
  /\ rec' = SaveTask(t, WithFailure(GetTask(t), Str(e)))
  /\ wpc' = [wpc EXCEPT ![t] = "fin_x"]
  /\ UNCHANGED <<age, active, fut, workQ, queue, hlock, spc, wrec, nprog, cpc,
                 crec, cres, ncancel, dpc, hpc, hstuck, ht, hrec, hbTodo,
                 cancelOk, lastSub, urec, acc, cfg, eng, fault, sto, conf, disk, ran>>

\* lines 233-237 raised
ValidationRaise(t) == WorkerFail(t, "invalid", ValidationError)

\* submit_task lines 61-77 for a task of a given task_type and task_config
SubmitSaveConfig(t, c) ==
  /\ spc[t] = "new"
  /\ \A u \in Tasks : u < t => spc[u] # "new"
  /\ rec' = SaveTask(t, NewRecord)
  /\ cfg' = [cfg EXCEPT ![t] = c]
  /\ spc' = [spc EXCEPT ![t] = "saved"]
  /\ UNCHANGED <<age, active, fut, workQ, queue, hlock, wpc, wrec, nprog, cpc,
                 crec, cres, ncancel, dpc, hpc, hstuck, ht, hrec, hbTodo,
                 cancelOk, lastSub, ran, urec, acc, eng, fault, sto, conf, disk>>

\* the worker's steps of lines 219-241 and 254-262 for a task whose
\* configuration the run has fixed: _validate_task_config decides
ConfigPasses(t) ==
  /\ wpc[t] = "upd_proc"
  /\ ValidateTaskConfig(cfg[t]) = NoException
  /\ WorkerWriteProcessing(t)

ConfigRaises(t) ==
  /\ wpc[t] = "upd_proc"
  /\ ValidateTaskConfig(cfg[t]) # NoException
  /\ WorkerWriteProcessingInvalid(t)

ConfigRaise(t) ==
  /\ wpc[t] = "invalid"
  /\ WorkerFail(t, "invalid", ValidateTaskConfig(cfg[t]))

\* the engine raises (line 241)
EngineRaise(t) == \E e \in EngineErrors : WorkerFail(t, "engine", e)

\* a read of the record into the copy a worker holds, r being the record
\* with the fields to write set
WorkerRead(t, from, to, r) ==
  /\ wpc[t] = from
  /\ wrec' = [wrec EXCEPT ![t] = r]
  /\ wpc' = [wpc EXCEPT ![t] = to]
  /\ UNCHANGED <<rec, age, active, fut, workQ, queue, hlock, spc, cpc,
                 crec, cres, ncancel, dpc, hpc, hstuck, ht, hrec, hbTodo,
                 cancelOk, lastSub, urec, acc, cfg, fault, sto, conf, disk, ran>>

\* the engine returns; line 244 -> 317-320: the copy is set to completed
EngineReturn(t) ==
  /\ WorkerRead(t, "engine", "ok", WithCompletion(GetTask(t)))
  /\ UNCHANGED <<nprog, eng>>

\* lines 244-250 -> 321: the record is saved as completed
WorkerWriteCompleted(t) ==
  /\ WorkerSave(t, "ok", "fin")
  /\ UNCHANGED <<ran, nprog>>

\* the upper bound is left out
ClampLow(p) == IF p < 0 THEN 0 ELSE p

\* line 330: max(0, min(100, percentage))
Clamp(p) ==
  LET m == IF 100 < p THEN 100 ELSE p
  IN  IF 0 > m THEN 0 ELSE m

\* _update_task_progress lines 328-332 on a copy
WithProgress(r, p) == [r EXCEPT !.pct = Clamp(p)]

\* progress_callback(p, message) -> _update_task_progress lines 328-332: the
\* record is read and the copy gets the clamped percentage
ProgressReadOf(t, p) ==
  /\ WorkerRead(t, "engine", "pg_w", WithProgress(GetTask(t), p))
  /\ eng' = [op |-> "progress", task |-> t, p |-> p]
  /\ nprog' = [nprog EXCEPT ![t] = @ + 1]

\* a report that repeats the percentage the record holds (the frame loop
\* reports the same percentage many times, watermark.py lines 147-149)
ProgressRead(t) ==
  /\ Cardinality({u \in Tasks : nprog[u] > 0}) < MaxProgress
  /\ nprog[t] = 0
  /\ ProgressReadOf(t, GetTask(t).pct)

\* the percentages a callback is invoked with in runs that follow them
Percents == {0 - Over, 0, 100 - Over, 100, 100 + Over}

\* a report of an engine with any percentage of Percents
ProgressReadAny(t) ==
  /\ nprog[t] < MaxReports
  /\ \E p \in Percents : ProgressReadOf(t, p)

\* _update_task_progress line 333
ProgressWrite(t) ==
  /\ WorkerSave(t, "pg_w", "hb_r")
  /\ UNCHANGED <<ran, nprog>>

\* progress_callback lines 305-307: the copy gets last_heartbeat
ProgressHeartbeatRead(t) ==
  /\ WorkerRead(t, "hb_r", "hb_w", GetTask(t))
  /\ UNCHANGED <<nprog, eng>>

\* progress_callback line 308
ProgressHeartbeatWrite(t) ==
  /\ WorkerSave(t, "hb_w", "engine")
  /\ UNCHANGED <<ran, nprog>>

\* active_tasks.pop(task_id, None)
PopActive(t) == active \ {t}

\* lines 264-267: finally, under _task_lock; the future is then done
WorkerFinally(t) ==
  /\ wpc[t] \in {"fin", "fin_x"}
  /\ ~hlock
  /\ active' = PopActive(t)
  /\ fut' = [fut EXCEPT ![t] = "done"]
  /\ wpc' = [wpc EXCEPT ![t] = "done"]
  /\ UNCHANGED <<rec, age, workQ, queue, hlock, spc, wrec, nprog, cpc, crec,
                 cres, ncancel, dpc, hpc, hstuck, ht, hrec, hbTodo, cancelOk,
                 lastSub, urec, acc, cfg, eng, fault, sto, conf, disk, ran>>

\* -------------------------------------------------------------- cancel_task
\* every record that exists and is not processing is cancelled
CancelBranchAny(status) ==
  IF status = "none" THEN "refuse"
  ELSE IF status = "processing" THEN "p"
  ELSE "q_r"

\* lines 349-355, 365 and 379: the branch cancel_task takes on the status it
\* read; no record, or any status but queued and processing: return False
CancelBranch(status) ==
  IF status = "queued" THEN "q_r"
  ELSE IF status = "processing" THEN "p"
  ELSE "refuse"

\* lines 348-355 and 365: the record is read and the branch chosen
CancelCall(t) ==
  /\ cpc[t] = "idle"
  /\ ncancel < MaxCancel
  /\ ncancel' = ncancel + 1
  /\ LET branch == CancelBranch(GetTask(t).status)
     IN  IF branch = "refuse"
           THEN cres' = [cres EXCEPT ![t] = "false"] /\ UNCHANGED cpc
           ELSE cpc' = [cpc EXCEPT ![t] = branch] /\ UNCHANGED cres
  /\ UNCHANGED <<rec, age, active, fut, workQ, queue, hlock, spc, wpc, wrec,
                 nprog, crec, dpc, hpc, hstuck, ht, hrec, hbTodo, cancelOk, lastSub, urec, acc, cfg, eng, fault, sto, conf, disk, ran>>

\* line 356 -> 317-320: the record is read, the copy set to cancelled
CancelQueuedRead(t) ==
  /\ cpc[t] = "q_r"
  /\ crec' = [crec EXCEPT ![t] = WithStatus(GetTask(t), "cancelled")]
  /\ cpc' = [cpc EXCEPT ![t] = "q_w"]
  /\ UNCHANGED <<rec, age, active, fut, workQ, queue, hlock, spc, wpc, wrec,
                 nprog, cres, ncancel, dpc, hpc, hstuck, ht, hrec, hbTodo,
                 cancelOk, lastSub, urec, acc, cfg, eng, fault, sto, conf, disk, ran>>

\* lines 321 and 362: the copy is saved, True is returned;
\* neither the wait queue nor active_tasks nor the future is touched
CancelQueuedWrite(t) ==
  /\ cpc[t] = "q_w"
  /\ rec' = SaveTask(t, crec[t])
  /\ crec' = [crec EXCEPT ![t] = NoRecord]
  /\ cres' = [cres EXCEPT ![t] = "true"]
  /\ cancelOk' = cancelOk \cup {t}
  /\ cpc' = [cpc EXCEPT ![t] = "idle"]
  /\ UNCHANGED <<age, active, fut, workQ, queue, hlock, spc, wpc, wrec, nprog,
                 ncancel, dpc, hpc, hstuck, ht, hrec, hbTodo, lastSub, urec, acc, cfg, eng, fault, sto, conf, disk, ran>>

\* a cancel_task call on an id the store does not know or whose record is
\* completed, failed or cancelled
CancelFinished(t) ==
  /\ GetTask(t).status \in Terminal \cup {"none"}
  /\ CancelCall(t)

\* Future.cancel(): True exactly for a future no pool thread has taken
FutureCancel(t) == fut[t] = "pending"

\* lines 365-379: under _task_lock, cancel the future; only where that
\* succeeds is the record saved as cancelled and the id deleted
CancelProcessing(t) ==
  /\ cpc[t] = "p"
  /\ ~hlock
  /\ IF t \in active /\ FutureCancel(t)
       THEN /\ fut' = [fut EXCEPT ![t] = "cancelled"]
            /\ workQ' = Remove(workQ, t)
            /\ rec' = SaveTask(t, WithStatus(GetTask(t), "cancelled"))
            /\ active' = active \ {t}
            /\ cres' = [cres EXCEPT ![t] = "true"]
       ELSE /\ cres' = [cres EXCEPT ![t] = "false"]
            /\ UNCHANGED <<fut, workQ, rec, active>>
  /\ cpc' = [cpc EXCEPT ![t] = "idle"]
  /\ UNCHANGED <<age, queue, hlock, spc, wpc, wrec, nprog, crec, ncancel, dpc,
                 hpc, hstuck, ht, hrec, hbTodo, cancelOk, lastSub, urec, acc, cfg, eng, fault, sto, conf, disk, ran>>

\* ---------------------------------------------------------- can_accept_task
\* line 415: self.task_queue.qsize()
QSize == Len(queue)

\* busy slots make the call refuse
CanAcceptTaskIdle ==
  QSize < MaxQueueSize /\ Cardinality(active) < MaxConcurrent

\* lines 416-426: the first component of what can_accept_task returns; busy
\* slots change the message only
CanAcceptTask ==
  IF QSize >= MaxQueueSize THEN FALSE
  ELSE IF Cardinality(active) >= MaxConcurrent THEN TRUE
  ELSE TRUE

\* a can_accept_task call: it takes no lock and writes nothing
CanAcceptCall ==
  /\ acc' = (IF CanAcceptTask THEN "true" ELSE "false")
  /\ UNCHANGED <<rec, age, active, fut, workQ, queue, hlock, spc, wpc, wrec,
                 nprog, cpc, crec, cres, ncancel, dpc, hpc, hstuck, ht, hrec,
                 hbTodo, cancelOk, lastSub, ran, urec, cfg, eng, fault, sto, conf, disk>>

\* ----------------------------------------------------------- _process_queue
\* the newest id is taken
NextQueuedLast(q) == q[Len(q)]

\* task_queue.get_nowait(): the id the dispatch loop takes
NextQueued(q) == Head(q)

\* line 118: task and task.get('status') == 'queued'
StillQueued(t) == GetTask(t).status = "queued"

\* lines 112-123: one locked section; the id taken is started or skipped
DispatchPoll ==
  /\ dpc = "poll"
  /\ ~hlock
  /\ IF SlotFree /\ queue # <<>>
       THEN LET t == NextQueued(queue)
            IN  /\ queue' = Remove(queue, t)
                /\ IF StillQueued(t)
                     THEN StartTaskImmediately(t)
                     ELSE UNCHANGED <<active, fut, workQ>>
       ELSE UNCHANGED <<queue, active, fut, workQ>>
  /\ dpc' = "cleanup"
  /\ UNCHANGED <<rec, age, hlock, spc, wpc, wrec, nprog, cpc, crec, cres,
                 ncancel, hpc, hstuck, ht, hrec, hbTodo, cancelOk, lastSub, urec, acc, cfg, eng, fault, sto, conf, disk, ran>>

\* Future.done()
FutureDone(t) == fut[t] \in {"done", "cancelled"}

\* _cleanup_completed_tasks (line 126), then the sleep of line 129
DispatchCleanup ==
  /\ dpc = "cleanup"
  /\ ~hlock
  /\ active' = {t \in active : ~FutureDone(t)}
  /\ dpc' = "poll"
  /\ UNCHANGED <<rec, age, fut, workQ, queue, hlock, spc, wpc, wrec, nprog, cpc,
                 crec, cres, ncancel, hpc, hstuck, ht, hrec, hbTodo, cancelOk,
                 lastSub, urec, acc, cfg, eng, fault, sto, conf, disk, ran>>

\* ------------------------------------------------------------ _health_check
\* line 160: timeout_minutes = 30 if status == 'processing' else 15
TimeoutMinutes(status) ==
  IF status = "processing" THEN ProcessingTimeoutMinutes ELSE QueuedTimeoutMinutes

\* lines 155-157: now = datetime.utcnow() has no offset, and subtracting a
\* created_at that has one raises TypeError
DurationRaises(t) ==
  rec[t].status \in {"queued", "processing"} /\ rec[t].tz = "aware"

\* lines 154-161 on the snapshot of line 151, with now - created_at as given
\* by ages: the records the pass will fail.  The loop goes in key order
\* (the order of first save) and the except of line 182 ends the pass at
\* the first record whose duration raises.
StuckAt(ages) ==
  {t \in Tasks : /\ rec[t].status \in {"queued", "processing"}
                 /\ \A u \in Tasks : u <= t => ~DurationRaises(u)
                 /\ ages[t] * TickMinutes > TimeoutMinutes(rec[t].status)}

\* What the clock may show at line 152: no record grows younger, a record
\* saved earlier is at least as old as one saved later.
ClockReadings ==
  {a \in [Tasks -> 0..MaxAge] :
     /\ \A t \in Tasks : a[t] >= age[t]
     /\ \A t \in Tasks : rec[t].status = "none" => a[t] = 0
     /\ \A t, u \in Tasks : (t < u /\ rec[u].status # "none") => a[t] >= a[u]}

\* _check_stuck_tasks lines 151-152: all_tasks and now are taken
HealthSnapshotAt(readings) ==
  /\ hpc = "idle"
  /\ \E a \in readings :
       /\ age' = a
       /\ hstuck' = StuckAt(a)
  /\ hpc' = "scan"
  /\ UNCHANGED <<rec, active, fut, workQ, queue, hlock, spc, wpc, wrec,
                 nprog, cpc, crec, cres, ncancel, dpc, ht, hrec, hbTodo,
                 cancelOk, lastSub, urec, acc, cfg, eng, fault, sto, conf, disk, ran>>

\* a health pass at any later time
HealthSnapshot == HealthSnapshotAt(ClockReadings)

\* a health pass while no record is older than at the last pass
HealthSnapshotNow == HealthSnapshotAt({age})

\* lines 165-170 -> 317-321: the next stuck id, in key order, is saved as
\* failed with the timeout message.  The write replaces both fields the
\* model keeps, so the read of line 317 is not a step of its own.
HealthFail ==
  /\ hpc = "scan"
  /\ hstuck # {}
  /\ ht' = Min(hstuck)
  /\ rec' = SaveTask(Min(hstuck), WithFailure(GetTask(Min(hstuck)), "timeout"))
  /\ hpc' = "pop"
  /\ UNCHANGED <<age, active, fut, workQ, queue, hlock, spc, wpc, wrec, nprog,
                 cpc, crec, cres, ncancel, dpc, hstuck, hrec, hbTodo, cancelOk,
                 lastSub, urec, acc, cfg, eng, fault, sto, conf, disk, ran>>

\* lines 173-179: under _task_lock the id leaves active_tasks and its future
\* is cancelled, which has an effect only on a future still pending
HealthPop ==
  /\ hpc = "pop"
  /\ ~hlock
  /\ active' = PopActive(ht)
  /\ IF ht \in active /\ FutureCancel(ht)
       THEN fut' = [fut EXCEPT ![ht] = "cancelled"] /\ workQ' = Remove(workQ, ht)
       ELSE UNCHANGED <<fut, workQ>>
  /\ hstuck' = hstuck \ {ht}
  /\ ht' = 0
  /\ hpc' = "scan"
  /\ UNCHANGED <<rec, age, queue, hlock, spc, wpc, wrec, nprog, cpc, crec, cres,
                 ncancel, dpc, hrec, hbTodo, cancelOk, lastSub, urec, acc, cfg, eng, fault, sto, conf, disk, ran>>

\* _update_heartbeat lines 189-190: _task_lock is taken, the keys are listed
HeartbeatBegin ==
  /\ hpc = "scan"
  /\ hstuck = {}
  /\ ~hlock
  /\ hlock' = TRUE
  /\ hbTodo' = active
  /\ hpc' = "hb"
  /\ UNCHANGED <<rec, age, active, fut, workQ, queue, spc, wpc, wrec, nprog,
                 cpc, crec, cres, ncancel, dpc, hstuck, ht, hrec, cancelOk,
                 lastSub, urec, acc, cfg, eng, fault, sto, conf, disk, ran>>

\* lines 191-192: a listed id's record is read; it is refreshed only when
\* the copy says processing
HeartbeatRead(t) ==
  /\ hpc = "hb"
  /\ t \in hbTodo
  /\ IF GetTask(t).status = "processing"
       THEN ht' = t /\ hrec' = GetTask(t) /\ hpc' = "hb_w" /\ UNCHANGED hbTodo
       ELSE hbTodo' = hbTodo \ {t} /\ UNCHANGED <<ht, hrec, hpc>>
  /\ UNCHANGED <<rec, age, active, fut, workQ, queue, hlock, spc, wpc, wrec,
                 nprog, cpc, crec, cres, ncancel, dpc, hstuck, cancelOk,
                 lastSub, urec, acc, cfg, eng, fault, sto, conf, disk, ran>>

\* lines 193-194: the copy, last_heartbeat refreshed, is saved
HeartbeatWrite ==
  /\ hpc = "hb_w"
  /\ rec' = SaveTask(ht, hrec)
  /\ hrec' = NoRecord
  /\ hbTodo' = hbTodo \ {ht}
  /\ ht' = 0
  /\ hpc' = "hb"
  /\ UNCHANGED <<age, active, fut, workQ, queue, hlock, spc, wpc, wrec, nprog,
                 cpc, crec, cres, ncancel, dpc, hstuck, cancelOk, lastSub, urec, acc, cfg, eng, fault, sto, conf, disk, ran>>

\* the lock is released; line 143: the loop sleeps until the next pass
HeartbeatEnd ==
  /\ hpc = "hb"
  /\ hbTodo = {}
  /\ hlock' = FALSE
  /\ hpc' = "idle"
  /\ UNCHANGED <<rec, age, active, fut, workQ, queue, spc, wpc, wrec, nprog,
                 cpc, crec, cres, ncancel, dpc, hstuck, ht, hrec, hbTodo,
                 cancelOk, lastSub, urec, acc, cfg, eng, fault, sto, conf, disk, ran>>

\* ---------------------------------------------------------------- engines
\* A file an engine leaves: absent, of size 0, or with content.
Files == {"missing", "empty", "full"}

\* the size is not looked at
OutputExists(f) == f # "missing"

\* watermark.py line 87, merger.py lines 96 and 285:
\* os.path.exists(output_path) and os.path.getsize(output_path) > 0
OutputOk(f) == f = "full"

\* _process_video_frames (watermark.py lines 107-157) has written the
\* temporary video, with frames or with none
WatermarkFrames(t) ==
  /\ wpc[t] = "engine"
  /\ cfg[t].type = "watermark_removal"
  /\ eng = NoCall
  /\ \E f \in {"empty", "full"} :
       eng' = [op |-> "frames", task |-> t, temp |-> f, file |-> "missing",
               exc |-> NoException]
  /\ UNCHANGED <<rec, age, active, fut, workQ, queue, hlock, spc, wpc, wrec,
                 nprog, cpc, crec, cres, ncancel, dpc, hpc, hstuck, ht, hrec,
                 hbTodo, cancelOk, lastSub, ran, urec, acc, cfg, fault, sto, conf, disk>>

\* How subprocess.run of watermark.py line 176 ends: exit status 0, another
\* exit status, TimeoutExpired, FileNotFoundError (no ffmpeg), or another
\* exception (PermissionError for an ffmpeg that may not be executed).
RemuxOutcomes == {"ok", "nonzero", "timeout", "not_found", "os_error"}

\* shutil.copy2 of lines 182 and 188: done, or an OSError (disk full)
CopyOutcomes == {"ok", "raises"}

\* lines 178-188: the outcomes after which the temporary video is copied
RemuxFallsBack(o) == o \in {"nonzero", "timeout", "not_found"}

\* what leaves _merge_audio_with_ffmpeg
RemuxException(o, c) ==
  IF o = "os_error" THEN <<"remux">>
  ELSE IF RemuxFallsBack(o) /\ c = "raises" THEN <<"copy">>
  ELSE NoException

\* _merge_audio_with_ffmpeg (lines 159-189): ffmpeg writes the output from
\* the temporary video and the input's audio, or the fallback copies the
\* temporary video
WatermarkRemux(t) ==
  /\ wpc[t] = "engine"
  /\ eng.op = "frames" /\ eng.task = t
  /\ \E o \in RemuxOutcomes, c \in CopyOutcomes :
       /\ o = "ok" => (c = "ok" /\ eng.temp = "full")
       /\ o = "os_error" => c = "ok"
       /\ eng' = [op |-> "remux", task |-> t, temp |-> eng.temp, remux |-> o,
                  file |-> IF RemuxException(o, c) = NoException
                             THEN eng.temp ELSE "missing",
                  exc |-> RemuxException(o, c)]
  /\ UNCHANGED <<rec, age, active, fut, workQ, queue, hlock, spc, wpc, wrec,
                 nprog, cpc, crec, cres, ncancel, dpc, hpc, hstuck, ht, hrec,
                 hbTodo, cancelOk, lastSub, ran, urec, acc, cfg, fault, sto, conf, disk>>

\* A merge input: start_time, end_time (0 for None) and duration, in seconds
\* (merger.py lines 188-191).
Windows ==
  {[start |-> a, end |-> b, duration |-> d] :
     a \in {0, 2}, b \in {0, 5, 6, 12}, d \in {0, 8, 10, 12}}

\* 10 s, 8 s and 12 s inputs trimmed to [0,5), [2,6) and [0,12)
ExampleFiles ==
  <<[start |-> 0, end |-> 5, duration |-> 10],
    [start |-> 2, end |-> 6, duration |-> 8],
    [start |-> 0, end |-> 12, duration |-> 12]>>

FileLists == UNION {[1..n -> Windows] : n \in 2..MaxFiles}

\* only a later start makes a cut
NeedsCuttingStart(f) == f.start > 0

\* line 201: start_time > 0 or (end_time and end_time < duration)
NeedsCutting(f) == f.start > 0 \/ (f.end # 0 /\ f.end < f.duration)

\* lines 203-241 for input i: the segment file made of it.  cut says whether
\* ffmpeg cut it (else shutil.copy2 copied it), ss and t are the -ss and -t
\* arguments, 0 where the argument is not given.
Segment(f, i) ==
  IF NeedsCutting(f)
    THEN [src |-> i, cut |-> TRUE,
          ss |-> IF f.start > 0 THEN f.start ELSE 0,
          t |-> IF f.end # 0 /\ f.end > f.start THEN f.end - f.start ELSE 0]
    ELSE [src |-> i, cut |-> FALSE, ss |-> 0, t |-> 0]

\* _merge_videos lines 186-243 on a list of inputs from lists: the segment
\* files in input order, or the ValueError of line 237 where a cut fails
MergeCut(t, lists) ==
  /\ wpc[t] = "engine"
  /\ cfg[t].type = "video_merge"
  /\ eng = NoCall
  /\ \E files \in lists, cutOk \in BOOLEAN :
       /\ ~cutOk => \E i \in 1..Len(files) : NeedsCutting(files[i])
       /\ eng' = [op |-> "cut", task |-> t, files |-> files,
                  segments |-> [i \in 1..Len(files) |-> Segment(files[i], i)],
                  file |-> "missing",
                  exc |-> IF cutOk THEN NoException ELSE <<"cut">>]
  /\ UNCHANGED <<rec, age, active, fut, workQ, queue, hlock, spc, wpc, wrec,
                 nprog, cpc, crec, cres, ncancel, dpc, hpc, hstuck, ht, hrec,
                 hbTodo, cancelOk, lastSub, ran, urec, acc, cfg, fault, sto, conf, disk>>

\* _merge_videos lines 246-286: the concat file lists the segments in
\* order, ffmpeg is run once on it; a non-zero exit status raises
\* ValueError (line 281), and so does an output that is missing or empty
\* (line 286).  tried lists the merge commands that were run.
MergeConcat(t) ==
  /\ wpc[t] = "engine"
  /\ eng.op = "cut" /\ eng.task = t /\ eng.exc = NoException
  /\ \E o \in {"ok", "nonzero"}, f \in Files :
       /\ o = "nonzero" => f = "missing"
       /\ eng' = [op |-> "concat", task |-> t, files |-> eng.files,
                  segments |-> eng.segments,
                  list |-> [i \in 1..Len(eng.segments) |-> eng.segments[i].src],
                  tried |-> <<"concat">>, primary |-> o, file |-> f,
                  exc |-> IF o = "nonzero" THEN <<"merge">>
                          ELSE IF OutputOk(f) THEN NoException ELSE <<"output">>]
  /\ UNCHANGED <<rec, age, active, fut, workQ, queue, hlock, spc, wpc, wrec,
                 nprog, cpc, crec, cres, ncancel, dpc, hpc, hstuck, ht, hrec,
                 hbTodo, cancelOk, lastSub, ran, urec, acc, cfg, fault, sto, conf, disk>>

\* the engine is at the check of its output (watermark.py line 87,
\* merger.py line 96)
AtVerify(t) ==
  /\ eng.op \in {"remux", "concat"} /\ eng.task = t
  /\ eng.exc = NoException

\* the check passes and process returns output_path
VerifiedReturn(t) ==
  /\ AtVerify(t)
  /\ OutputOk(eng.file)
  /\ EngineReturn(t)

\* the check fails: ValueError("Output file creation failed") (watermark.py
\* line 89, merger.py line 97) reaches the except of _execute_task
VerifyRaise(t) ==
  /\ AtVerify(t)
  /\ ~OutputOk(eng.file)
  /\ WorkerFail(t, "engine", <<"Output file creation failed">>)

\* what a step of the engine raised reaches the except of _execute_task
\* (watermark.py line 105 and merger.py lines 111 and 313 re-raise)
StepRaise(t) ==
  /\ eng.op \in {"remux", "cut", "concat"} /\ eng.task = t
  /\ eng.exc # NoException
  /\ WorkerFail(t, "engine", eng.exc)

\* ------------------------------------------------------- validate_regions
\* A region handed to validate_regions: a dict with the four keys ("dict";
\* a missing key reads as 0), a list or tuple of four values ("list"), or
\* anything else ("other"); at holds int() of its four values, and conv
\* what int() does on them: nothing, ValueError or TypeError, or the
\* OverflowError of an infinite float.
Coords == (0 - Over)..(MaxSide + Over)

Conversions == {NoException, ValidationError, OverflowError}

Shapes ==
  {[fmt |-> f, at |-> a, conv |-> NoException] :
     f \in {"dict", "list"}, a \in [1..4 -> Coords]} \cup
  {[fmt |-> "dict", at |-> [k \in 1..4 |-> 0], conv |-> c] :
     c \in Conversions \ {NoException}} \cup
  {[fmt |-> "other", at |-> [k \in 1..4 |-> 0], conv |-> NoException]}

\* max(lo, min(v, hi))
Between(lo, v, hi) ==
  LET m == IF v < hi THEN v ELSE hi IN IF lo > m THEN lo ELSE m

\* the extent is kept as given
FitLoose(len, room) == Between(0, len, len)

\* lines 316-317: max(0, min(width, video_width - x))
Fit(len, room) == Between(0, len, room)

\* lines 308-326 and 328-345: one region with its coordinates corrected, as
\* the dict validate_regions would append
Corrected(r, W, H) ==
  IF r.fmt = "dict"
    THEN LET x == Between(0, r.at[1], W)
             y == Between(0, r.at[2], H)
         IN  [x |-> x, y |-> y, width |-> Fit(r.at[3], W - x),
              height |-> Fit(r.at[4], H - y)]
    ELSE LET x1 == Between(0, r.at[1], W)
             y1 == Between(0, r.at[2], H)
             x2 == Between(x1, r.at[3], IF W > x1 THEN W ELSE x1)
             y2 == Between(y1, r.at[4], IF H > y1 THEN H ELSE y1)
         IN  [x |-> x1, y |-> y1, width |-> x2 - x1, height |-> y2 - y1]

\* lines 306-347 for one region: whether it is appended
Kept(r, W, H) ==
  /\ r.fmt \in {"dict", "list"}
  /\ r.conv = NoException
  /\ Corrected(r, W, H).width > 0 /\ Corrected(r, W, H).height > 0

\* validate_regions, lines 289-349: the list it returns
RECURSIVE ValidRegions(_, _, _)
ValidRegions(rs, W, H) ==
  IF rs = <<>> THEN <<>>
  ELSE IF Kept(Head(rs), W, H)
    THEN <<Corrected(Head(rs), W, H)>> \o ValidRegions(Tail(rs), W, H)
    ELSE ValidRegions(Tail(rs), W, H)

\* the except of line 346 names ValueError and TypeError only: the
\* OverflowError of a region in a known format leaves validate_regions
RegionsRaise(rs) ==
  IF \E i \in 1..Len(rs) : rs[i].fmt # "other" /\ rs[i].conv = OverflowError
    THEN OverflowError ELSE NoException

\* a call validate_regions(regions, video_width, video_height)
ValidateRegionsCall ==
  /\ eng = NoCall
  /\ \E rs \in SeqsUpTo(Shapes, MaxRegions), W \in 0..MaxSide, H \in 0..MaxSide :
       eng' = [op |-> "validate_regions", regions |-> rs, W |-> W, H |-> H,
               exc |-> RegionsRaise(rs),
               out |-> IF RegionsRaise(rs) = NoException
                         THEN ValidRegions(rs, W, H) ELSE <<>>]
  /\ UNCHANGED <<rec, age, active, fut, workQ, queue, hlock, spc, wpc, wrec,
                 nprog, cpc, crec, cres, ncancel, dpc, hpc, hstuck, ht, hrec,
                 hbTodo, cancelOk, lastSub, ran, urec, acc, cfg, fault, sto, conf, disk>>

\* ------------------------------------------------------------- save_task
\* what save_task leaves alone
NotStore ==
  <<rec, age, active, fut, workQ, queue, hlock, spc, wpc, wrec, nprog, cpc,
    crec, cres, ncancel, dpc, hpc, hstuck, ht, hrec, hbTodo, cancelOk,
    lastSub, ran, urec, acc, cfg, eng, fault, conf, disk>>

\* save_task is entered without the lock
LockFreeAlways(th) == TRUE

\* storage.py line 25: threading.RLock(), free or owned by the caller
LockFree(th) == sto.lock \in {0, th}

\* a thread calls save_task(t, data) (storage.py line 175)
SaveCall(th, t) ==
  /\ sto.pc[th] = "idle"
  /\ sto.n[th] < MaxSaves
  /\ sto' = [sto EXCEPT !.pc[th] = "called", !.id[th] = t,
                        !.data[th] = Content(th, sto.n[th] + 1),
                        !.met = @ \/ \E o \in Threads : sto.pc[o] # "idle"]
  /\ UNCHANGED NotStore

\* line 177: with self._lock
SaveLock(th) ==
  /\ sto.pc[th] = "called"
  /\ LockFree(th)
  /\ sto' = [sto EXCEPT !.lock = th, !.pc[th] = "locked"]
  /\ UNCHANGED NotStore

\* line 178 -> 165-168: get_tasks re-enters the lock and loads tasks.json
SaveLoad(th) ==
  /\ sto.pc[th] = "locked"
  /\ sto' = [sto EXCEPT !.copy[th] = sto.file, !.pc[th] = "loaded"]
  /\ UNCHANGED NotStore

\* line 179, then _save_json lines 114-117: the copy with the new record is
\* written to tasks.json.tmp
SaveDump(th) ==
  /\ sto.pc[th] = "loaded"
  /\ sto' = [sto EXCEPT !.tmp = [sto.copy[th] EXCEPT ![sto.id[th]] = sto.data[th]],
                        !.pc[th] = "dumped"]
  /\ UNCHANGED NotStore

\* _save_json line 123: os.rename(temp_file, file_path)
SaveRename(th) ==
  /\ sto.pc[th] = "dumped"
  /\ sto' = [sto EXCEPT !.file = sto.tmp, !.pc[th] = "renamed"]
  /\ UNCHANGED NotStore

\* the with block of line 177 ends and save_task returns
SaveUnlock(th) ==
  /\ sto.pc[th] = "renamed"
  /\ sto' = [sto EXCEPT !.lock = IF @ = th THEN 0 ELSE @, !.pc[th] = "idle",
                        !.n[th] = @ + 1, !.last[sto.id[th]] = sto.data[th]]
  /\ UNCHANGED NotStore

\* ------------------------------------------------------ Task Store failures
\* One call to the Task Store fails in a run: save_task re-raises what the
\* write of tasks.json met (storage.py line 134), get_task and get_config let
\* through what is neither JSONDecodeError nor IOError (storage.py line 108).
\* fault keeps the operation the failure hit, the id it was handling, the
\* wait queue it left behind and whether the operation raised to its caller.
StoreFailed(op, t, q, raised) ==
  /\ fault = NoFault
  /\ fault' = [op |-> op, task |-> t, left |-> q, raised |-> raised]

\* submit_task line 77 raises: lines 90-92 log the error and re-raise it; no
\* record is saved and no id is returned
SubmitSaveRaises(t) ==
  /\ spc[t] = "new"
  /\ \A u \in Tasks : u < t => spc[u] # "new"
  /\ spc' = [spc EXCEPT ![t] = "raised"]
  /\ StoreFailed("submit_task", t, queue, TRUE)
  /\ UNCHANGED <<rec, age, active, fut, workQ, queue, hlock, wpc, wrec, nprog,
                 cpc, crec, cres, ncancel, dpc, hpc, hstuck, ht, hrec, hbTodo,
                 cancelOk, lastSub, ran, urec, acc, cfg, eng, sto, conf, disk>>

\* cancel_task line 348 raises: lines 381-383 log the error and return False
CancelStoreFails(t) ==
  /\ cpc[t] = "idle"
  /\ ncancel < MaxCancel
  /\ ncancel' = ncancel + 1
  /\ cres' = [cres EXCEPT ![t] = "false"]
  /\ StoreFailed("cancel_task", t, queue, FALSE)
  /\ UNCHANGED <<rec, age, active, fut, workQ, queue, hlock, spc, wpc, wrec,
                 nprog, cpc, crec, dpc, hpc, hstuck, ht, hrec, hbTodo, cancelOk,
                 lastSub, ran, urec, acc, cfg, eng, sto, conf, disk>>

\* can_accept_task line 414 raises: lines 427-429 return (False, message)
CanAcceptStoreFails ==
  /\ acc' = "false"
  /\ StoreFailed("can_accept_task", 0, queue, FALSE)
  /\ UNCHANGED <<rec, age, active, fut, workQ, queue, hlock, spc, wpc, wrec,
                 nprog, cpc, crec, cres, ncancel, dpc, hpc, hstuck, ht, hrec,
                 hbTodo, cancelOk, lastSub, ran, urec, cfg, eng, sto, conf, disk>>

\* get_queue_status line 393 raises: lines 407-409 return {}
QueueStatusStoreFails ==
  /\ StoreFailed("get_queue_status", 0, queue, FALSE)
  /\ UNCHANGED <<rec, age, active, fut, workQ, queue, hlock, spc, wpc, wrec,
                 nprog, cpc, crec, cres, ncancel, dpc, hpc, hstuck, ht, hrec,
                 hbTodo, cancelOk, lastSub, ran, urec, acc, cfg, eng, sto, conf, disk>>

\* the loop exits at its first error
DispatchStops == "stopped"

\* _process_queue lines 131-133: the except is inside the while, so the
\* loop goes back to its top after the wait of line 133
DispatchResumes == "poll"

\* _process_queue line 117 raises after get_nowait() took the id (line 115):
\* the id is in neither the wait queue nor active_tasks; line 126 is skipped
DispatchPollStoreFails ==
  /\ dpc = "poll"
  /\ ~hlock
  /\ SlotFree /\ queue # <<>>
  /\ queue' = Remove(queue, NextQueued(queue))
  /\ dpc' = DispatchResumes
  /\ StoreFailed("_process_queue", NextQueued(queue), queue', FALSE)
  /\ UNCHANGED <<rec, age, active, fut, workQ, hlock, spc, wpc, wrec, nprog,
                 cpc, crec, cres, ncancel, hpc, hstuck, ht, hrec, hbTodo,
                 cancelOk, lastSub, ran, urec, acc, cfg, eng, sto, conf, disk>>

\* _check_stuck_tasks line 151 raises: line 182 logs it, no record is
\* failed in this pass, and _health_check goes on to _update_heartbeat
HealthSnapshotStoreFails ==
  /\ hpc = "idle"
  /\ hstuck' = {}
  /\ hpc' = "scan"
  /\ StoreFailed("_check_stuck_tasks", 0, queue, FALSE)
  /\ UNCHANGED <<rec, age, active, fut, workQ, queue, hlock, spc, wpc, wrec,
                 nprog, cpc, crec, cres, ncancel, dpc, ht, hrec, hbTodo,
                 cancelOk, lastSub, ran, urec, acc, cfg, eng, sto, conf, disk>>

\* _update_heartbeat line 191 raises: the with statement releases
\* _task_lock, line 196 logs it, the ids left are not refreshed in this pass
HeartbeatStoreFails(t) ==
  /\ hpc = "hb"
  /\ t \in hbTodo
  /\ hlock' = FALSE
  /\ hbTodo' = {}
  /\ hpc' = "idle"
  /\ StoreFailed("_update_heartbeat", t, queue, FALSE)
  /\ UNCHANGED <<rec, age, active, fut, workQ, queue, spc, wpc, wrec, nprog,
                 cpc, crec, cres, ncancel, dpc, hstuck, ht, hrec, cancelOk,
                 lastSub, ran, urec, acc, cfg, eng, sto, conf, disk>>

\* ------------------------------------------- video_merge input formats
\* task_config of a video_merge task in the three formats of merger.py lines
\* 38-69: segments is the number of entries of task_config.segments (each
\* naming an uploaded file of the task), files the number of entries of
\* task_config.files (each with the path of an existing file), input_files
\* the number of paths in task_config.input_files (api/tasks.py line 372)
MergeConfigs ==
  {[type |-> "video_merge", regions |-> <<>>, files |-> f, segments |-> s,
    input_files |-> n] : f \in 0..MaxFiles, s \in 0..MaxFiles, n \in 0..MaxFiles}

\* merger.py lines 39-69: len(input_files) as the engine builds the list,
\* from the first format that is present
MergeInputs(c) ==
  IF c.segments > 0 THEN c.segments
  ELSE IF c.files > 0 THEN c.files
  ELSE c.input_files

\* merger.py lines 72-73 and 104-112: fewer than 2 inputs, ValueError,
\* re-raised to the worker
MergeInputsRaise(t) ==
  /\ cfg[t].type = "video_merge"
  /\ MergeInputs(cfg[t]) < 2
  /\ WorkerFail(t, "engine", <<"Video merge requires at least 2 input files">>)

\* merger.py lines 75-102: with 2 inputs or more the merge is made and the
\* output path returned
MergeReturn(t) ==
  /\ cfg[t].type = "video_merge"
  /\ MergeInputs(cfg[t]) >= 2
  /\ EngineReturn(t)

\* merger.py lines 75-112: with 2 inputs or more, a later step raises
MergeRaise(t) ==
  /\ cfg[t].type = "video_merge"
  /\ MergeInputs(cfg[t]) >= 2
  /\ EngineRaise(t)

\* ----------------------------------------------------------- result files
\* task_queue.py lines 209-241 for one of OutputThreads pool threads (the
\* pool has max_concurrent threads, 3 by default): the record is processing
\* and the engine is called on a task of type, sid and inputs c
OutputEnter(t, c) ==
  /\ t <= OutputThreads
  /\ wpc[t] = "idle" /\ rec[t].status = "none"
  /\ rec' = SaveTask(t, WithStatus(NewRecord, "processing"))
  /\ cfg' = [cfg EXCEPT ![t] = c]
  /\ wpc' = [wpc EXCEPT ![t] = "engine"]
  /\ UNCHANGED <<age, active, fut, workQ, queue, hlock, spc, wrec, nprog, cpc,
                 crec, cres, ncancel, dpc, hpc, hstuck, ht, hrec, hbTodo,
                 cancelOk, lastSub, ran, urec, acc, eng, fault, sto, conf, disk>>

\* merger.py lines 93 -> 258-271 and watermark.py lines 80 -> 166-189:
\* ffmpeg -y or copy2 writes the file at output_path, over what is there
OutputWrite(t) ==
  /\ wpc[t] = "engine"
  /\ disk' = [disk EXCEPT ![OutputPath(cfg[t])] = t]
  /\ wpc' = [wpc EXCEPT ![t] = "written"]
  /\ UNCHANGED <<rec, age, active, fut, workQ, queue, hlock, spc, wrec, nprog,
                 cpc, crec, cres, ncancel, dpc, hpc, hstuck, ht, hrec, hbTodo,
                 cancelOk, lastSub, ran, urec, acc, cfg, eng, fault, sto, conf>>

\* merger.py lines 96-102 and watermark.py lines 87-94: a file is at
\* output_path, the engine returns the path; line 244 -> 317-320
OutputReturn(t) ==
  /\ wpc[t] = "written"
  /\ disk[OutputPath(cfg[t])] # 0
  /\ WorkerRead(t, "written", "ok", WithCompletion(GetTask(t)))
  /\ UNCHANGED <<nprog, eng>>

\* merger.py lines 104-111 and watermark.py lines 96-104: a step of the
\* engine raised, or the file is gone at the check of lines 96 / 87; the
\* except branch removes whatever file is at output_path
OutputCleanup(t) ==
  /\ wpc[t] \in {"engine", "written"}
  /\ disk' = [disk EXCEPT ![OutputPath(cfg[t])] = 0]
  /\ wpc' = [wpc EXCEPT ![t] = "cleaned"]
  /\ UNCHANGED <<rec, age, active, fut, workQ, queue, hlock, spc, wrec, nprog,
                 cpc, crec, cres, ncancel, dpc, hpc, hstuck, ht, hrec, hbTodo,
                 cancelOk, lastSub, ran, urec, acc, cfg, eng, fault, sto, conf>>

\* merger.py line 112 and watermark.py line 105: the exception is raised
\* again and the worker saves the record as failed
OutputRaise(t) == \E e \in EngineErrors : WorkerFail(t, "cleaned", e)

\* ------------------------------------------------------------ configure_task
\* api/tasks.py lines 236-259 and submit_task lines 61-77: the record stored
\* under t is read and must be uploaded; the copy, with the request's
\* config, goes to submit_task, which gives it a fresh id n and saves it
\* under n as queued.  Nothing is saved under t.
ConfigureSubmit(t, n) ==
  /\ spc[t] = "created"
  /\ GetTask(t).status = "uploaded"
  /\ spc[n] = "new"
  /\ \A u \in Tasks : u < n => spc[u] # "new"
  /\ rec' = SaveTask(n, NewRecord)
  /\ cfg' = [cfg EXCEPT ![n] = cfg[t]]
  /\ spc' = [spc EXCEPT ![t] = "configuring", ![n] = "saved"]
  /\ conf' = [conf EXCEPT ![t] = n]
  /\ UNCHANGED <<age, active, fut, workQ, queue, hlock, wpc, wrec, nprog, cpc,
                 crec, cres, ncancel, dpc, hpc, hstuck, ht, hrec, hbTodo,
                 cancelOk, lastSub, ran, urec, acc, eng, fault, sto, disk>>

\* api/tasks.py lines 261-277: submit_task has returned, the response is 200
\* with the task_id of the request and status queued
ConfigureReturn(t) ==
  /\ spc[t] = "configuring"
  /\ spc[conf[t]] = "done"
  /\ spc' = [spc EXCEPT ![t] = "configured"]
  /\ UNCHANGED <<rec, age, active, fut, workQ, queue, hlock, wpc, wrec, nprog,
                 cpc, crec, cres, ncancel, dpc, hpc, hstuck, ht, hrec, hbTodo,
                 cancelOk, lastSub, ran, urec, acc, cfg, eng, fault, sto, conf,
                 disk>>

\* ------------------------------------------------------------ specification
\* the steps that finish a submit_task or update_task call under way
RequestNext ==
  \/ \E t \in Tasks : SubmitAdmit(t)
  \/ \E t \in Tasks : UpdateTaskAdmit(t)
  \/ \E t \in Tasks : UpdateTaskSave(t)

\* the steps of the pool threads
WorkerNext ==
  \/ \E t \in Tasks : WorkerStart(t)
  \/ \E t \in Tasks : WorkerWriteProcessing(t)
  \/ \E t \in Tasks : WorkerWriteProcessingInvalid(t)
  \/ \E t \in Tasks : ValidationRaise(t)
  \/ \E t \in Tasks : EngineRaise(t)
  \/ \E t \in Tasks : EngineReturn(t)
  \/ \E t \in Tasks : ProgressRead(t)
  \/ \E t \in Tasks : ProgressWrite(t)
  \/ \E t \in Tasks : ProgressHeartbeatRead(t)
  \/ \E t \in Tasks : ProgressHeartbeatWrite(t)
  \/ \E t \in Tasks : WorkerWriteCompleted(t)
  \/ \E t \in Tasks : WorkerFinally(t)

\* the steps of cancel_task calls
CancelNext ==
  \/ \E t \in Tasks : CancelCall(t)
  \/ \E t \in Tasks : CancelQueuedRead(t)
  \/ \E t \in Tasks : CancelQueuedWrite(t)
  \/ \E t \in Tasks : CancelProcessing(t)

\* the steps of the dispatch thread
DispatchNext == DispatchPoll \/ DispatchCleanup

\* the heartbeat half of a health pass
HeartbeatNext ==
  \/ HeartbeatBegin
  \/ \E t \in Tasks : HeartbeatRead(t)
  \/ HeartbeatWrite
  \/ HeartbeatEnd

\* the steps of the health thread
HealthNext == HealthSnapshot \/ HealthFail \/ HealthPop \/ HeartbeatNext

\* Runs of any length in time: LongTasks submit_task calls, cancel_task calls.
Next ==
  \/ \E t \in 1..LongTasks : SubmitSave(t)
  \/ \E t \in Tasks : SubmitAdmit(t)
  \/ WorkerNext
  \/ CancelNext
  \/ DispatchNext
  \/ HealthNext

Spec == Init /\ [][Next]_vars

\* a health pass made when every saved record is older than both timeouts
LatePass ==
  HealthSnapshotAt({a \in ClockReadings :
                      \A t \in Tasks : rec[t].status # "none" => a[t] = MaxAge})

\* Runs of any length in time: LongTasks tasks, each handed to the scheduler
\* by submit_task or by update_task; cancel_task is not called.
LiveNext ==
  \/ \E t \in 1..LongTasks : SubmitSave(t)
  \/ \E t \in 1..LongTasks : CreateTask(t)
  \/ RequestNext
  \/ WorkerNext
  \/ DispatchNext
  \/ HealthNext

ApiSpec == Init /\ [][LiveNext]_vars

\* Scheduling: a request under way runs to its end; the pool threads, the
\* dispatch thread and the health thread keep running (daemon threads in
\* loops that sleep 1 s and 30 s between lock sections, so that a thread
\* waiting for _task_lock gets it); every engine call returns or raises;
\* time passes, so that a health pass is made after every record's
\* timeouts.  Nothing is assumed of when requests arrive.
FairSpec ==
  /\ Init /\ [][LiveNext]_vars
  /\ SF_vars(RequestNext)
  /\ SF_vars(WorkerNext)
  /\ SF_vars(DispatchNext)
  /\ WF_vars(HealthNext)
  /\ SF_vars(LatePass)

\* Runs within the first QueuedTimeoutMinutes: NumTasks submit_task calls,
\* no record grows old enough to be timed out.
BurstNext ==
  \/ \E t \in Tasks : SubmitSave(t)
  \/ \E t \in Tasks : SubmitAdmit(t)
  \/ WorkerNext
  \/ CancelNext
  \/ DispatchNext
  \/ HealthSnapshotNow
  \/ HeartbeatNext

BurstSpec == Init /\ [][BurstNext]_vars

\* the steps that finish a cancel_task call under way
CancelEnd ==
  \/ \E t \in Tasks : CancelQueuedRead(t)
  \/ \E t \in Tasks : CancelQueuedWrite(t)
  \/ \E t \in Tasks : CancelProcessing(t)

\* Runs of any length in time with one task, handed to the scheduler by
\* submit_task or by update_task, and cancel_task calls.
SoloNext ==
  \/ SubmitSave(1)
  \/ CreateTask(1)
  \/ RequestNext
  \/ WorkerNext
  \/ CancelNext
  \/ DispatchNext
  \/ HealthNext

\* The scheduling of FairSpec, and a cancel_task call under way runs to its
\* end.
SoloFairSpec ==
  /\ Init /\ [][SoloNext]_vars
  /\ SF_vars(RequestNext)
  /\ SF_vars(WorkerNext)
  /\ SF_vars(CancelEnd)
  /\ SF_vars(DispatchNext)
  /\ WF_vars(HealthNext)
  /\ SF_vars(LatePass)

\* Runs of any length in time with one task, submitted by submit_task or
\* created through the API: there its frame and regions are selected,
\* update_task hands it over, and may hand it over again once its worker
\* has ended; cancel_task calls.
EditNext ==
  \/ SubmitSave(1)
  \/ SubmitAdmit(1)
  \/ CreateTask(1)
  \/ \E s \in SelectStatuses : UpdateTaskSelect(1, s)
  \/ UpdateTaskAdmit(1)
  \/ UpdateTaskSave(1)
  \/ UpdateTaskAgain(1)
  \/ WorkerNext
  \/ CancelNext
  \/ DispatchNext
  \/ HealthNext

EditSpec == Init /\ [][EditNext]_vars

\* The runs of EditSpec with one cancel_task call, made on an unknown id or
\* on a record that is completed, failed or cancelled.
RefuseNext ==
  \/ SubmitSave(1)
  \/ SubmitAdmit(1)
  \/ CreateTask(1)
  \/ \E s \in SelectStatuses : UpdateTaskSelect(1, s)
  \/ UpdateTaskAdmit(1)
  \/ UpdateTaskSave(1)
  \/ UpdateTaskAgain(1)
  \/ WorkerNext
  \/ \E t \in Tasks : CancelFinished(t)
  \/ DispatchNext
  \/ HealthNext

RefuseSpec == Init /\ [][RefuseNext]_vars

\* Runs within the first QueuedTimeoutMinutes: NumTasks submit_task calls
\* and can_accept_task calls at any time.
GateNext ==
  \/ \E t \in Tasks : SubmitSave(t)
  \/ \E t \in Tasks : SubmitAdmit(t)
  \/ CanAcceptCall
  \/ WorkerNext
  \/ DispatchNext

GateSpec == Init /\ [][GateNext]_vars

\* Runs of one task submitted with any configuration of Configs.
ValidateNext ==
  \/ \E c \in Configs : SubmitSaveConfig(1, c)
  \/ SubmitAdmit(1)
  \/ WorkerStart(1)
  \/ ConfigPasses(1)
  \/ ConfigRaises(1)
  \/ ConfigRaise(1)
  \/ EngineRaise(1)
  \/ EngineReturn(1)
  \/ WorkerWriteCompleted(1)
  \/ WorkerFinally(1)
  \/ DispatchNext

ValidateSpec == Init /\ [][ValidateNext]_vars

\* Runs of one task whose engine reports progress with any percentage,
\* MaxReports times, while health passes refresh the heartbeat.
ProgressNext ==
  \/ SubmitSave(1)
  \/ SubmitAdmit(1)
  \/ WorkerStart(1)
  \/ WorkerWriteProcessing(1)
  \/ ProgressReadAny(1)
  \/ ProgressWrite(1)
  \/ ProgressHeartbeatRead(1)
  \/ ProgressHeartbeatWrite(1)
  \/ EngineRaise(1)
  \/ EngineReturn(1)
  \/ WorkerWriteCompleted(1)
  \/ WorkerFinally(1)
  \/ DispatchNext
  \/ HealthSnapshotNow
  \/ HeartbeatNext

ProgressSpec == Init /\ [][ProgressNext]_vars

\* The public operations with one Task Store failure: LongTasks submit_task
\* calls, cancel_task, can_accept_task and get_queue_status calls, no health
\* pass.
FaultNext ==
  \/ \E t \in 1..LongTasks : SubmitSave(t)
  \/ \E t \in 1..LongTasks : SubmitSaveRaises(t)
  \/ \E t \in Tasks : SubmitAdmit(t)
  \/ \E t \in 1..LongTasks : CancelStoreFails(t)
  \/ CanAcceptCall
  \/ CanAcceptStoreFails
  \/ QueueStatusStoreFails
  \/ WorkerNext
  \/ CancelNext
  \/ DispatchNext

FaultSpec == Init /\ [][FaultNext]_vars

\* The two loops with one Task Store failure: NumTasks submit_task calls,
\* engines that make no progress report, runs of any length in time.
LoopNext ==
  \/ \E t \in Tasks : SubmitSave(t)
  \/ \E t \in Tasks : SubmitAdmit(t)
  \/ \E t \in Tasks : WorkerStart(t)
  \/ \E t \in Tasks : WorkerWriteProcessing(t)
  \/ \E t \in Tasks : EngineReturn(t)
  \/ \E t \in Tasks : WorkerWriteCompleted(t)
  \/ \E t \in Tasks : WorkerFinally(t)
  \/ DispatchNext
  \/ DispatchPollStoreFails
  \/ HealthSnapshotNow
  \/ LatePass
  \/ HealthFail
  \/ HealthPop
  \/ HeartbeatNext
  \/ HealthSnapshotStoreFails
  \/ \E t \in Tasks : HeartbeatStoreFails(t)

LoopSpec == Init /\ [][LoopNext]_vars

\* the steps of workers whose engines return without a progress report
QuietWorkerNext ==
  \/ \E t \in Tasks : WorkerStart(t)
  \/ \E t \in Tasks : WorkerWriteProcessing(t)
  \/ \E t \in Tasks : EngineReturn(t)
  \/ \E t \in Tasks : WorkerWriteCompleted(t)
  \/ \E t \in Tasks : WorkerFinally(t)

\* The dispatch loop with one Task Store failure: NumTasks submit_task calls
\* within the first QueuedTimeoutMinutes.
LostNext ==
  \/ \E t \in Tasks : SubmitSave(t)
  \/ \E t \in Tasks : SubmitAdmit(t)
  \/ QuietWorkerNext
  \/ DispatchNext
  \/ DispatchPollStoreFails

\* Scheduling: a submit_task call under way gets _task_lock, the pool
\* threads and the dispatch thread keep running, every engine call returns.
\* Nothing is assumed of when submit_task is called or the store fails.
LostFairSpec ==
  /\ Init /\ [][LostNext]_vars
  /\ SF_vars(\E t \in Tasks : SubmitAdmit(t))
  /\ SF_vars(QuietWorkerNext)
  /\ SF_vars(DispatchNext)

\* the configurations of the tasks whose engines the runs follow
EngineConfigs ==
  {[type |-> "watermark_removal",
    regions |-> <<[mapping |-> TRUE, at |-> [k \in Range(RegionKeys) |-> "int"]]>>,
    files |-> 0],
   [type |-> "video_merge", regions |-> <<>>, files |-> 2]}

\* the steps of a task up to its engine call
EngineStart(t, configs) ==
  \/ \E c \in configs : SubmitSaveConfig(t, c)
  \/ SubmitAdmit(t)
  \/ WorkerStart(t)
  \/ ConfigPasses(t)

\* One task of either type and the steps of its engine, with heartbeats.
EngineNext ==
  \/ EngineStart(1, EngineConfigs)
  \/ WatermarkFrames(1)
  \/ WatermarkRemux(1)
  \/ MergeCut(1, {ExampleFiles})
  \/ MergeConcat(1)
  \/ VerifiedReturn(1)
  \/ VerifyRaise(1)
  \/ StepRaise(1)
  \/ WorkerWriteCompleted(1)
  \/ WorkerFinally(1)
  \/ DispatchNext
  \/ HealthSnapshotNow
  \/ HeartbeatNext

EngineSpec == Init /\ [][EngineNext]_vars

\* One video_merge task on every list of 2..MaxFiles inputs.
WindowNext ==
  \/ EngineStart(1, {c \in EngineConfigs : c.type = "video_merge"})
  \/ MergeCut(1, FileLists)
  \/ MergeConcat(1)

WindowSpec == Init /\ [][WindowNext]_vars

\* One video_merge task with any numbers of inputs in the three formats.
FormatNext ==
  \/ \E c \in MergeConfigs : SubmitSaveConfig(1, c)
  \/ SubmitAdmit(1)
  \/ WorkerStart(1)
  \/ ConfigPasses(1)
  \/ ConfigRaises(1)
  \/ ConfigRaise(1)
  \/ MergeInputsRaise(1)
  \/ MergeReturn(1)
  \/ MergeRaise(1)
  \/ WorkerWriteCompleted(1)
  \/ WorkerFinally(1)
  \/ DispatchNext

FormatSpec == Init /\ [][FormatNext]_vars

\* OutputThreads tasks of any type, session and inputs whose engines run at
\* the same time.
OutputNext ==
  \/ \E t \in Tasks, c \in OutputConfigs : OutputEnter(t, c)
  \/ \E t \in Tasks : OutputWrite(t)
  \/ \E t \in Tasks : OutputReturn(t)
  \/ \E t \in Tasks : OutputCleanup(t)
  \/ \E t \in Tasks : OutputRaise(t)
  \/ \E t \in Tasks : WorkerWriteCompleted(t)

OutputSpec == Init /\ [][OutputNext]_vars

\* Tasks created and uploaded through the API, then configure_task calls on
\* them; the scheduler's threads run.
ConfigureNext ==
  \/ \E t \in Tasks : CreateTask(t)
  \/ \E t, n \in Tasks : ConfigureSubmit(t, n)
  \/ \E t \in Tasks : SubmitAdmit(t)
  \/ \E t \in Tasks : ConfigureReturn(t)
  \/ WorkerNext
  \/ DispatchNext

ConfigureSpec == Init /\ [][ConfigureNext]_vars

\* validate_regions on every list of up to MaxRegions regions
RegionSpec == Init /\ [][ValidateRegionsCall]_vars

\* NumThreads threads, each calling save_task MaxSaves times on any ids
StoreNext ==
  \/ \E th \in Threads, t \in Tasks : SaveCall(th, t)
  \/ \E th \in Threads : SaveLock(th)
  \/ \E th \in Threads : SaveLoad(th)
  \/ \E th \in Threads : SaveDump(th)
  \/ \E th \in Threads : SaveRename(th)
  \/ \E th \in Threads : SaveUnlock(th)

StoreSpec == Init /\ [][StoreNext]_vars

\* ------------------------------------------------------------------ claims
Processing == {t \in Tasks : rec[t].status = "processing"}

\* C1: in every reachable state the number of records whose persisted status
\* is processing is at most max_concurrent.
C1_ProcessingBounded == Cardinality(Processing) <= MaxConcurrent

\* C2: once cancel_task on a queued record has returned True, the record is
\* cancelled and no later step invokes the task's engine or makes its
\* status processing.
C2_CancelledNeverStarts ==
  [][\A t \in cancelOk :
       /\ rec'[t].status # "processing"
       /\ t \in ran' => t \in ran]_vars

\* C3: once a record's status is completed, failed or cancelled, no step
\* changes that status.
C3_TerminalIsFinal ==
  [][\A t \in Tasks :
       rec[t].status \in Terminal => rec'[t].status = rec[t].status]_vars

\* C4: when the engine raises, the worker's except branch leaves the record
\* failed with a non-empty error_message, and its finally branch leaves the
\* id out of active_tasks with a slot free for the next submit_task where
\* the id held one.
C4_EngineFailureFreesSlot ==
  [][\A t \in Tasks :
       /\ (wpc[t] = "engine" /\ wpc'[t] = "fin_x") =>
            (rec'[t].status = "failed" /\ rec'[t].err \notin {"null", ""})
       /\ (wpc[t] = "fin_x" /\ wpc'[t] = "done") =>
            (/\ t \notin active'
             /\ t \in active => Cardinality(active') < MaxConcurrent)]_vars

\* C5: a health pass fails every record that is processing and older than
\* the processing timeout when the pass takes its snapshot: each gets
\* status failed with the timeout message, then leaves active_tasks, and
\* the pass goes on to the heartbeats only when none is left.
C5_HealthPassFailsStuck ==
  [][/\ (hpc = "idle" /\ hpc' = "scan") =>
          \A t \in Tasks :
            (rec[t].status = "processing"
               /\ age'[t] * TickMinutes > ProcessingTimeoutMinutes) => t \in hstuck'
     /\ (hpc = "scan" /\ hpc' = "pop") =>
          (ht' \in hstuck /\ rec'[ht'].status = "failed" /\ rec'[ht'].err = "timeout")
     /\ (hpc = "pop" /\ hpc' # "pop") => (ht \notin active' /\ hstuck' = hstuck \ {ht})
     /\ hpc # "pop" => hstuck \subseteq hstuck' \/ hpc = "idle"
     /\ (hpc = "scan" /\ hpc' = "hb") => hstuck = {}]_vars

\* no submit_task, update_task, cancel_task or health pass is under way:
\* every scheduler operation that was started has returned (workers may be
\* running)
NoOperationUnderWay ==
  /\ ~hlock
  /\ hpc = "idle"
  /\ \A t \in Tasks : spc[t] \notin {"saved", "handed", "rehanded"} /\ cpc[t] = "idle"

\* C6: whenever no scheduler operation is under way, each record that is
\* queued or processing is in exactly one of the wait queue and active_tasks.
C6_ExactlyOneMembership ==
  NoOperationUnderWay =>
    \A t \in Tasks :
      rec[t].status \in {"queued", "processing"} =>
        (t \in Range(queue)) # (t \in active)

\* C7: under the scheduling of FairSpec (every engine call returns or
\* raises, the threads keep running, time passes), a record whose status is
\* processing has a terminal status at some later time, and its id is out
\* of active_tasks at some later time.
C7_ProcessingEnds ==
  \A t \in Tasks :
    /\ (rec[t].status = "processing") ~> (rec[t].status \in Terminal)
    /\ (rec[t].status = "processing") ~> (t \notin active)

\* C8: under the scheduling of FairSpec, an id in the wait queue is
\* eventually handed to the worker pool or has a record with a terminal
\* status.
C8_QueuedIsServed ==
  \A t \in Tasks :
    (t \in Range(queue)) ~> (fut[t] # "none" \/ rec[t].status \in Terminal)

\* C7 fails: the worker of a task started through update_task has finished,
\* the record says processing, its id holds no slot, and a health pass made
\* after the processing timeout finds nothing to fail.
C7_Witness ==
  /\ spc[1] = "done" /\ wpc[1] = "done" /\ 1 \notin active
  /\ rec[1].status = "processing" /\ rec[1].tz = "aware"
  /\ age[1] * TickMinutes > ProcessingTimeoutMinutes
  /\ hpc = "scan" /\ hstuck = {}

\* C8 fails: an id put in the wait queue by update_task has left it without
\* being handed over, its record says queued, and a health pass made after
\* the queued timeout finds nothing to fail.
C8_Witness ==
  /\ spc[2] = "done" /\ queue = <<>> /\ fut[2] = "none" /\ 2 \notin active
  /\ rec[2].status = "queued" /\ rec[2].tz = "aware"
  /\ age[2] * TickMinutes > QueuedTimeoutMinutes
  /\ hpc = "scan" /\ hstuck = {}

\* C11: a cancel_task call that read status processing returns True only
\* with the future cancelled, the record then cancelled and the id out of
\* active_tasks; otherwise it returns False and changes neither the record
\* nor active_tasks; and under the scheduling of SoloFairSpec the record
\* has a terminal status at some later time.
C11_CancelProcessing ==
  /\ [][\A t \in Tasks :
          (cpc[t] = "p" /\ cpc'[t] = "idle") =>
            IF cres'[t] = "true"
              THEN /\ fut[t] = "pending" /\ fut'[t] = "cancelled"
                   /\ rec'[t].status = "cancelled" /\ t \notin active'
              ELSE rec' = rec /\ active' = active /\ fut' = fut]_vars
  /\ \A t \in Tasks : (cpc[t] = "p") ~> (rec[t].status \in Terminal)

\* C11 fails: cancel_task on a processing record has returned False, the
\* task's worker has finished, the record says processing, and a health
\* pass made after the processing timeout finds nothing to fail.
C11_Witness ==
  /\ cres[1] = "false" /\ cpc[1] = "idle" /\ ncancel = 1
  /\ wpc[1] = "done" /\ 1 \notin active
  /\ rec[1].status = "processing"
  /\ age[1] * TickMinutes > ProcessingTimeoutMinutes
  /\ hpc = "scan" /\ hstuck = {}

\* C12: an id whose cancel_task on a queued record returned True is not in
\* the wait queue, so that can_accept_task compares max_queue_size with the
\* number of waiting ids that were not cancelled.
C12_CancelledLeavesQueue ==
  /\ \A t \in cancelOk : t \notin Range(queue)
  /\ CanAcceptTask = (Cardinality(Range(queue) \ cancelOk) < MaxQueueSize)

\* C13: submit_task does not depend on the wait-queue length: the id it
\* takes is fresh (no record, not handed over before), the record is saved
\* as queued, the locked section can run whenever the heartbeat pass does
\* not hold _task_lock, also with max_queue_size ids or more waiting, and
\* it either starts the id or appends it to the wait queue.
C13_SubmitIgnoresDepth ==
  /\ [](\A t \in Tasks : (spc[t] = "saved" /\ ~hlock) => ENABLED SubmitAdmit(t))
  /\ [][\A t \in Tasks :
          /\ (spc[t] = "new" /\ spc'[t] = "saved") =>
               /\ rec[t].status = "none" /\ fut[t] = "none"
               /\ t \notin active /\ t \notin Range(queue)
               /\ rec'[t].status = "queued"
          /\ (spc[t] = "saved" /\ spc'[t] = "done") =>
               \/ t \in active' /\ fut'[t] = "pending" /\ queue' = queue
               \/ queue' = Append(queue, t) /\ active' = active]_vars

\* C13 happens: the third submit_task found max_queue_size ids waiting and
\* has put its id behind them.
C13_Witness ==
  /\ Len(queue) > MaxQueueSize /\ queue[Len(queue)] = 3
  /\ lastSub = 3 /\ spc[3] = "done" /\ rec[3].status = "queued"

C15_EngineOnce ==
  [][\A t \in Tasks :
       (wpc[t] = "upd_proc" /\ wpc'[t] = "engine") => t \notin ran]_vars

\* C15 fails: the task's engine has returned once, a further update_task
\* with start_processing has handed the id over again, and a worker is
\* about to invoke the engine for it.
C15_Witness ==
  /\ 1 \in ran /\ spc[1] \in {"rehanded", "redone"}
  /\ wpc[1] = "upd_proc" /\ wrec[1].status = "processing"

\* a configuration that fails validation as C16 lists the cases:
\* watermark_removal with no regions, or with a region that is no mapping
\* or lacks an integer under x, y, width or height; video_merge with fewer
\* than 2 files
ListedInvalid(c) ==
  IF c.type = "watermark_removal"
    THEN \/ Len(c.regions) = 0
         \/ \E i \in 1..Len(c.regions) :
              \/ ~c.regions[i].mapping
              \/ \E k \in Range(RegionKeys) : c.regions[i].at[k] # "int"
    ELSE c.files < 2

\* the same with a value int() converts in the place of an integer
ConvertInvalid(c) ==
  IF c.type = "watermark_removal"
    THEN \/ Len(c.regions) = 0
         \/ \E i \in 1..Len(c.regions) :
              \/ ~c.regions[i].mapping
              \/ \E k \in Range(RegionKeys) :
                   c.regions[i].at[k] \notin {"int", "float", "digits"}
    ELSE c.files < 2

\* C16 as stated: for a task whose configuration fails validation as
\* listed, no worker invokes the engine, and the worker that finds it
\* invalid saves the record as failed with the validation message.
C16_InvalidNeverRuns ==
  [][\A t \in Tasks :
       ListedInvalid(cfg[t]) =>
         /\ ~(wpc[t] = "upd_proc" /\ wpc'[t] = "engine")
         /\ t \notin ran'
         /\ (wpc[t] = "invalid" /\ wpc'[t] = "fin_x") =>
              (rec'[t].status = "failed" /\ rec'[t].err = Str(ValidationError))]_vars

\* C16 amended: for a task whose configuration has no regions, a region
\* that is no mapping or lacks under x, y, width or height a value int()
\* converts, or fewer than 2 files, no worker invokes the engine, and the
\* worker saves the record as failed with the message of the exception
\* raised: the validation message, or that of int() for an infinite float.
C16_RejectedNeverRuns ==
  [][\A t \in Tasks :
       (cfg[t] # AnyConfig /\ ConvertInvalid(cfg[t])) =>
         /\ ~(wpc[t] = "upd_proc" /\ wpc'[t] = "engine")
         /\ t \notin ran'
         /\ (wpc[t] = "upd_proc" /\ wpc'[t] # "upd_proc") => wpc'[t] = "invalid"
         /\ (wpc[t] = "invalid" /\ wpc'[t] = "fin_x") =>
              /\ rec'[t].status = "failed"
              /\ rec'[t].err \in {Str(ValidationError), Str(OverflowError)}
              /\ rec'[t].err = Str(OverflowError) =>
                   \E i \in 1..Len(cfg[t].regions) :
                     \E k \in Range(RegionKeys) : cfg[t].regions[i].at[k] = "inf"]_vars

\* C16 happens: the second region of a task lacks a height, its worker
\* has saved the record as failed and ended without invoking the engine.
C16_Witness ==
  /\ cfg[1].type = "watermark_removal" /\ Len(cfg[1].regions) = 2
  /\ ValidateRegion(cfg[1].regions[1]) = NoException
  /\ cfg[1].regions[2].mapping /\ cfg[1].regions[2].at["height"] = "missing"
  /\ wpc[1] = "done" /\ 1 \notin ran
  /\ rec[1].status = "failed" /\ rec[1].err = "validation"

\* C17: in every reachable state a record has a non-null error_message only
\* if its status is failed.
C17_ErrorOnlyIfFailed ==
  \A t \in Tasks : rec[t].err # "null" => rec[t].status = "failed"

\* C18: in every reachable state a record has a non-null output_file_path
\* only if its status is completed.
C18_OutputOnlyIfCompleted ==
  \A t \in Tasks : rec[t].out # "null" => rec[t].status = "completed"

\* the edges of the status diagram
StatusEdges ==
  {<<"created", "uploaded">>, <<"uploaded", "queued">>,
   <<"queued", "processing">>, <<"processing", "completed">>,
   <<"processing", "failed">>, <<"processing", "cancelled">>,
   <<"queued", "failed">>, <<"queued", "cancelled">>}

\* C19: the status of a record that exists changes only along the edges of
\* the status diagram, so never backwards.
C19_StatusEdges ==
  [][\A t \in Tasks :
       (rec[t].status # "none" /\ rec'[t].status # rec[t].status) =>
         <<rec[t].status, rec'[t].status>> \in StatusEdges]_vars

\* the statuses of the status diagram
Statuses ==
  {"created", "uploaded", "queued", "processing", "completed", "failed",
   "cancelled"}

C21_ProgressClamped ==
  /\ [](\A t \in Tasks : rec[t].pct \in 0..100)
  /\ [][\A t \in Tasks :
          (wpc[t] = "pg_w" /\ wpc'[t] = "hb_r" /\ eng.op = "progress") =>
            rec'[t].pct = (IF eng.p < 0 THEN 0 ELSE IF eng.p > 100 THEN 100 ELSE eng.p)]_vars

\* C21 happens: the engine has reported a percentage above 100 and the
\* callback has saved the record.
C21_Witness ==
  /\ eng.op = "progress" /\ eng.task = 1 /\ eng.p = 100 + Over
  /\ wpc[1] = "hb_r" /\ rec[1].pct = 100 /\ rec[1].status = "processing"

\* C22: no call to submit_task, cancel_task, can_accept_task or
\* get_queue_status raises to its caller, also when the Task Store fails:
\* every operation that met a Task Store failure ended without raising.
C22_NoRaise == fault.op # "none" => ~fault.raised

C24_CompletedOnlyVerified ==
  /\ [](\A t \in Tasks :
          rec[t].status = "completed" =>
            (/\ eng.op \in {"remux", "concat"} /\ eng.task = t
             /\ eng.exc = NoException /\ eng.file = "full"))
  /\ [][\A t \in Tasks :
          (/\ wpc[t] = "engine" /\ wpc'[t] # "engine"
           /\ eng.op \in {"remux", "concat"} /\ eng.file # "full") =>
            (rec'[t].status = "failed" /\ rec'[t].err # "null")]_vars

\* C24: the watermark engine found its output empty and the task failed
C24_Witness ==
  /\ eng.op = "remux" /\ eng.exc = NoException /\ eng.file = "empty"
  /\ rec[1].status = "failed" /\ rec[1].err = "Output file creation failed"

\* C25: for a list of merge inputs with trim windows 0 <= start < end, the
\* engine cuts input i exactly when start > 0 or end < duration, to a
\* segment from start of duration end - start, copies it otherwise, and
\* lists the segments for concatenation in input order.
C25_SegmentsAsWindows ==
  eng.op \in {"cut", "concat"} =>
    /\ Len(eng.segments) = Len(eng.files)
    /\ \A i \in 1..Len(eng.files) :
         LET f == eng.files[i]
             g == eng.segments[i]
         IN  /\ g.src = i
             /\ (0 <= f.start /\ f.start < f.end) =>
                  /\ g.cut <=> (f.start > 0 \/ f.end < f.duration)
                  /\ g.cut => (g.ss = f.start /\ g.t = f.end - f.start)
    /\ eng.op = "concat" => eng.list = [i \in 1..Len(eng.files) |-> i]

\* C25: the inputs of 10 s, 8 s and 12 s trimmed to [0,5), [2,6), [0,12)
\* give cuts of 5 s and 4 s and a copy of the 12 s input, in this order
C25_Witness ==
  /\ eng.op = "concat" /\ eng.files = ExampleFiles /\ eng.list = <<1, 2, 3>>
  /\ eng.segments[1].cut /\ eng.segments[1].t = 5
  /\ eng.segments[2].cut /\ eng.segments[2].ss = 2 /\ eng.segments[2].t = 4
  /\ ~eng.segments[3].cut

\* C26: when the primary concat command of the merge engine fails the
\* engine runs the filter-graph command and then the minimal one: the task
\* fails on a merge failure only after all three were run.
C26_ThreeStrategies ==
  [][\A t \in Tasks :
       (/\ wpc[t] = "engine" /\ wpc'[t] = "fin_x"
        /\ eng.op = "concat" /\ eng.primary = "nonzero") =>
         eng.tried = <<"concat", "filter_graph", "minimal">>]_vars

\* C27: whenever the audio remux of the watermark engine fails, the engine
\* delivers the temporary video as its output and the task completes: the
\* worker's next step is the completion, never the failure.
C27_RemuxNeverFails ==
  [][\A t \in Tasks :
       (/\ wpc[t] = "engine" /\ wpc'[t] # "engine"
        /\ eng.op = "remux" /\ eng.remux # "ok") =>
         (wpc'[t] = "ok" /\ eng.file = eng.temp)]_vars

\* the part of a region that lies in the frame W x H is empty
Degenerate(r, W, H) ==
  \/ W <= 0 \/ H <= 0
  \/ IF r.fmt = "dict"
       THEN r.at[3] <= 0 \/ r.at[4] <= 0 \/ r.at[1] >= W \/ r.at[2] >= H
       ELSE \/ r.at[3] <= r.at[1] \/ r.at[3] <= 0 \/ r.at[1] >= W
            \/ r.at[4] <= r.at[2] \/ r.at[4] <= 0 \/ r.at[2] >= H

\* C28: for every region list and frame size W x H, every region that
\* validate_regions returns has x >= 0, y >= 0, width > 0, height > 0,
\* x + width <= W and y + height <= H, and the regions whose corrected area
\* is zero are left out: as many regions are returned as there are
\* convertible inputs in a known format with a part inside the frame.
C28_RegionsInFrame ==
  (eng.op = "validate_regions" /\ eng.exc = NoException) =>
    /\ \A i \in 1..Len(eng.out) :
         LET r == eng.out[i]
         IN  /\ r.x >= 0 /\ r.y >= 0 /\ r.width > 0 /\ r.height > 0
             /\ r.x + r.width <= eng.W /\ r.y + r.height <= eng.H
    /\ Len(eng.out) =
         Cardinality({i \in 1..Len(eng.regions) :
                        /\ eng.regions[i].fmt # "other"
                        /\ eng.regions[i].conv = NoException
                        /\ ~Degenerate(eng.regions[i], eng.W, eng.H)})

\* C28: a region that reaches over the right edge is returned cut to the
\* frame, and a second one of no area is left out
C28_Witness ==
  /\ eng.op = "validate_regions" /\ eng.W = MaxSide /\ eng.H = MaxSide
  /\ Len(eng.regions) = 2 /\ Len(eng.out) = 1
  /\ eng.regions[1].fmt = "dict" /\ eng.regions[1].at[1] = 0
  /\ eng.regions[1].at[3] = MaxSide + Over
  /\ eng.regions[2].fmt = "list" /\ eng.regions[2].conv = NoException
  /\ eng.out[1].width = MaxSide

\* C30: the heartbeat refresh of a health pass changes last_heartbeat only:
\* in every interleaving with the worker of the same task, the save of the
\* refreshed record leaves status, error_message, output_file_path and
\* progress_percentage as they were in the store.
C30_HeartbeatOnly ==
  [][(hpc = "hb_w" /\ hpc' = "hb") => rec'[ht] = rec[ht]]_vars

\* C31: a progress report changes progress_percentage, progress_message and
\* last_heartbeat only: in every interleaving with a health-loop timeout or a
\* cancel_task on the same task, neither of its two saves (lines 333 and 308)
\* changes the status stored for the task.
C31_ProgressKeepsStatus ==
  [][\A t \in Tasks :
       (\/ wpc[t] = "pg_w" /\ wpc'[t] = "hb_r"
        \/ wpc[t] = "hb_w" /\ wpc'[t] = "engine")
       => rec'[t].status = rec[t].status]_vars

\* the record of t was failed by a health pass while it was queued: it has
\* the timeout message and no worker has written processing for it
TimedOutQueued(t) ==
  rec[t].status = "failed" /\ rec[t].err = "timeout" /\ t \notin ran

\* C32: a record that is queued and older than the queued timeout when a
\* health pass takes its snapshot is failed by the pass with the timeout
\* message, and once it is, no step hands its id to the executor and no
\* worker begins to run it.
C32_QueuedTimeoutFinal ==
  [][/\ (hpc = "idle" /\ hpc' = "scan") =>
          \A t \in Tasks :
            (rec[t].status = "queued"
               /\ age'[t] * TickMinutes > QueuedTimeoutMinutes) => t \in hstuck'
     /\ (hpc = "scan" /\ hpc' = "pop") =>
          (ht' \in hstuck /\ rec'[ht'].status = "failed" /\ rec'[ht'].err = "timeout")
     /\ \A t \in Tasks :
          TimedOutQueued(t) =>
            /\ (dpc = "poll" /\ dpc' = "cleanup") => fut'[t] = fut[t]
            /\ fut[t] # "running" => fut'[t] # "running"]_vars

\* C33: after configure_task has succeeded for a task id whose record was
\* uploaded, the record stored under that id is queued or further in its
\* lifecycle, and the id that was submitted to the scheduler is that id.
C33_ConfiguredIdIsSubmitted ==
  \A t \in Tasks :
    spc[t] = "configured" =>
      /\ rec[t].status \in {"queued", "processing"} \cup Terminal
      /\ conf[t] = t

\* C34: a video_merge task whose configuration gives the merge engine two
\* inputs or more, in whichever of the three formats, passes
\* _validate_task_config and its worker calls the engine; a task that gives
\* fewer than two is never completed.
C34_MergeFormatsPass ==
  [][\A t \in Tasks :
       cfg[t].type = "video_merge" =>
         /\ (wpc[t] = "upd_proc" /\ wpc'[t] # "upd_proc"
               /\ MergeInputs(cfg[t]) >= 2) => wpc'[t] = "engine"
         /\ MergeInputs(cfg[t]) < 2 =>
               (wpc'[t] # "ok" /\ rec'[t].status # "completed")]_vars

\* C35: in every reachable state active_tasks holds at most max_concurrent
\* ids, whatever the interleaving of submit_task, update_task with
\* start_processing, the dispatch loop, the workers and the health loop.
C35_ActiveBounded == Cardinality(active) <= MaxConcurrent

\* every slot is taken by a task of submit_task while update_task has put
\* its task in the wait queue and a health pass is under way
C35_Witness ==
  /\ Cardinality(active) = MaxConcurrent
  /\ \E t \in active : rec[t].tz = "naive" /\ fut[t] = "running"
  /\ \E t \in Range(queue) : rec[t].tz = "aware" /\ spc[t] = "done"
  /\ hpc # "idle"

\* C36: a cancel_task call on an id the store does not know, or on a record
\* that is completed, failed or cancelled, returns False and changes
\* neither the store nor the wait queue nor active_tasks.
C36_CancelRefused ==
  [][\A t \in Tasks :
       (/\ ncancel' # ncancel
        /\ cpc[t] = "idle"
        /\ cpc'[t] # cpc[t] \/ cres'[t] # cres[t]
        /\ rec[t].status \in Terminal \cup {"none"}) =>
         (/\ cres'[t] = "false" /\ cpc'[t] = "idle"
          /\ rec' = rec /\ queue' = queue /\ active' = active
          /\ fut' = fut /\ workQ' = workQ)]_vars

\* the call was refused on a record whose worker had ended, while the
\* record of an unknown id is still absent
C36_Witness ==
  /\ cres[1] = "false" /\ rec[1].status \in Terminal /\ wpc[1] = "done"
  /\ rec[2].status = "none"

\* C37: when the read of the Task Store fails in the dispatch iteration
\* that has just taken an id from the wait queue, the id is not lost: under
\* the scheduling of LostFairSpec it is in the wait queue again or has been
\* handed to the executor at some later time.
C37_IdNotLost ==
  \A t \in Tasks :
    (fault.op = "_process_queue" /\ fault.task = t) ~>
      (t \in Range(queue) \/ fut[t] # "none")

\* C38: within one health pass, a record whose created_at makes the
\* duration raise (missing, unparsable or with a UTC offset) does not keep
\* the other records of the snapshot from being checked: every queued or
\* processing record with a well-formed created_at that is older than its
\* timeout is among those the pass fails.
C38_PassSkipsBadRecord ==
  [][(hpc = "idle" /\ hpc' = "scan") =>
       \A t \in Tasks :
         (/\ rec[t].status \in {"queued", "processing"}
          /\ ~DurationRaises(t)
          /\ age'[t] * TickMinutes > TimeoutMinutes(rec[t].status)) =>
           t \in hstuck']_vars

\* C39: for a task started through update_task with start_processing, the
\* status queued is in the store when the id is handed to the executor or
\* put in the wait queue; the dispatch loop never takes such an id from the
\* wait queue without starting it; and the save that ends update_task never
\* replaces a status a worker wrote.
C39_QueuedSavedFirst ==
  [][\A t \in Tasks :
       /\ (spc[t] = "created" /\ spc'[t] = "handed") => rec'[t].status = "queued"
       /\ (/\ dpc = "poll" /\ dpc' = "cleanup"
           /\ t \in Range(queue) /\ t \notin Range(queue')
           /\ spc[t] \in {"handed", "done"} /\ rec[t].tz = "aware"
           /\ rec[t].status \notin Terminal) => t \in active'
       /\ (spc[t] = "handed" /\ spc'[t] = "done") =>
            (rec[t].status \in {"processing"} \cup Terminal =>
               rec'[t].status = rec[t].status)]_vars

\* C40: two tasks that are processing at the same time never write the same
\* output file, and the cleanup of a failing task never removes the output
\* file of another task: a file that holds the output of a task is written
\* over only when that task is no longer processing, and removed only by
\* the cleanup of that task.
C40_OutputsApart ==
  [][\A p \in OutputPaths : \A u \in Tasks :
       (disk[p] = u /\ disk'[p] # u) =>
         IF disk'[p] = 0
           THEN wpc[u] # "cleaned" /\ wpc'[u] = "cleaned"
           ELSE rec[u].status # "processing"]_vars

C9_BoundPlusOne ==
  (/\ \A t \in Tasks : spc[t] = (IF t <= MaxConcurrent + 1 THEN "done" ELSE "new")
   /\ \A t \in Tasks : wpc[t] \in {"idle", "upd_proc", "engine", "invalid", "pg_w", "hb_r", "hb_w"}
   /\ ncancel = 0
   /\ \A t \in Tasks : age[t] * TickMinutes <= QueuedTimeoutMinutes)
  =>
  (/\ Cardinality(active) = MaxConcurrent
   /\ active = (1..(MaxConcurrent + 1)) \ {lastSub}
   /\ queue = <<lastSub>>
   /\ rec[lastSub].status = "queued"
   /\ \A t \in active :
        rec[t].status = (IF wpc[t] \in {"idle", "upd_proc"} THEN "queued" ELSE "processing"))

\* C9 happens: max_concurrent+1 calls were made one after the other, the
\* first max_concurrent ids are processing and the last one waits.
C9_Witness ==
  /\ \A t \in Tasks : spc[t] = (IF t <= MaxConcurrent + 1 THEN "done" ELSE "new")
  /\ ncancel = 0
  /\ \A t \in 1..MaxConcurrent : rec[t].status = "processing" /\ wpc[t] = "engine"
  /\ active = 1..MaxConcurrent
  /\ queue = <<MaxConcurrent + 1>> /\ lastSub = MaxConcurrent + 1
  /\ rec[MaxConcurrent + 1].status = "queued"

\* C10: the wait queue is first in, first out: an id is put at the tail,
\* and an id leaves the queue, handed over or discarded, only from the head,
\* so never before an id enqueued earlier.
C10_Fifo ==
  [][/\ \/ queue' = queue
        \/ queue # <<>> /\ queue' = Tail(queue)
        \/ \E t \in Tasks : queue' = Append(queue, t)
     /\ \A b \in Range(queue) :
          (fut[b] = "none" /\ fut'[b] # "none") => b = Head(queue)]_vars

\* C10 happens: two ids wait, a slot is free and the dispatch loop is about
\* to take one of them.
C10_Witness ==
  /\ Len(queue) = 2 /\ SlotFree /\ dpc = "poll" /\ ~hlock
  /\ \A i \in 1..2 : rec[queue[i]].status = "queued"

====
